---------------------------- MODULE Spec2Model ----------------------------
(***************************************************************************)
(* Model of the mission-control daemon of the Analog3 ecosystem:           *)
(*   - the module registry actor   (src/mission-control/src/a3_modules.rs) *)
(*   - the stream manager actor                                            *)
(*         (src/mission-control/src/mission_control/streams.rs)            *)
(* Each actor processes one Operation per step of its handle_requests loop.*)
(***************************************************************************)
EXTENDS Integers, Sequences, FiniteSets, TLC

(***************************************************************************)
(* Bounds of the model.                                                    *)
(***************************************************************************)
\* Largest module id.  The source uses u8 ids and searches 1..=255
\* (a3_modules.rs:143); the model keeps the same shape on 0..MaxModuleId.
MaxModuleId == 2

\* Number of admin wires.  The source searches 0..64 (streams.rs:174); the
\* model keeps the same shape on a pool of NumWires wires.
NumWires == 2

\* Number of operations a run of RegistryPropsSpec processes.
MaxRegSteps == 4

(***************************************************************************)
(* Program constants.                                                      *)
(***************************************************************************)
\* 0x700
A3_ID_INDIVIDUAL_MODULE_BASE == 1792

\* 0x680
A3_ID_ADMIN_WIRES_BASE == 1664

\* Size of the admin wire pool in the source: `for id in 0..64`.
A3_ADMIN_WIRES_COUNT == 64

(***************************************************************************)
(* Input domains.                                                          *)
(***************************************************************************)
\* Module UIDs (u32 serials) the environment uses.
Uids == {449756911, 305419896}

\* u8 module ids, 0 included (Operation::Register carries any u8).
Ids == 0 .. MaxModuleId

\* Option<T>: None is the empty sequence, Some(v) a one-element sequence.
None == << >>

Some(v) == << v >>

\* Option::or
OptionOr(a, b) == IF a # None THEN a ELSE b

\* HashMap::insert / HashMap::remove on a function used as a map.
MapInsert(map, k, v) == [x \in (DOMAIN map) \cup {k} |-> IF x = k THEN v ELSE map[x]]

MapRemove(map, k) == [x \in (DOMAIN map) \ {k} |-> map[x]]

EmptyMap == [x \in {} |-> None]

SetMin(S) == CHOOSE x \in S : \A y \in S : x <= y

VARIABLES
    modules_by_id,    \* A3Modules.modules_by_id : HashMap<u8, A3Module>
    modules_by_uid,   \* A3Modules.modules_by_uid : HashMap<u32, A3Module>
    reg_last,         \* the Operation the registry actor processed last, with its response
    issued,           \* history: per uid, the id GetOrCreateIdByUid handed out
    reassigned,       \* history: per uid, whether a Register moved it since
    reg_again,        \* history: the last operation repeated a GetOrCreateIdByUid
    reg_steps,        \* number of operations processed (RegistryPropsSpec only)
    streams,          \* StreamManager.streams : HashMap<u32, Stream>
    str_last,         \* the Operation the stream manager processed last, with its response
    tasks,            \* the spawned tasks of MissionControl: command and position
    mailbox,          \* per task, the oneshot::Receiver<CanMessage> it holds
    acked,            \* history: per task, an ID_ASSIGN_ACK arrived for its assignment
    can_last,         \* the frame sent to can_tx last
    in_last,          \* the frame handle_can_message dispatched last, with its route
    encoder,          \* a PropertyEncoder with the property list it borrows
    chunk_parser,     \* a ChunkParser with its DataFieldParser
    codec_last,       \* the codec call made last with what it returned, and the bytes so far
    spawned,          \* the tasks the inbound handlers spawned that have not run yet
    n_arrived,        \* number of inbound frames handed to a spawned handler task
    bus,              \* frames the modules sent that have not arrived, each with the
                      \* request it answers
    mail_re           \* history: per task, the request the frame in its receiver answers

vars == << modules_by_id, modules_by_uid, reg_last, issued, reassigned, reg_again,
          reg_steps, streams, str_last, tasks, mailbox, acked, can_last, in_last,
          encoder, chunk_parser, codec_last, spawned, n_arrived, bus, mail_re >>

reg_vars == << modules_by_id, modules_by_uid, reg_last >>

hist_vars == << issued, reassigned, reg_again >>

str_vars == << streams, str_last >>

orch_vars == << tasks, mailbox, acked, can_last, in_last >>

codec_vars == << encoder, chunk_parser, codec_last >>

inbound_vars == << spawned, n_arrived, bus, mail_re >>

(***************************************************************************)
(* Module registry: a3_modules.rs                                          *)
(***************************************************************************)
\* A3Module { id, uid, name: None, module_type: None, module_type_id: None }
NewModule(uid, id) ==
    [uid |-> uid, id |-> id, name |-> None, module_type |-> None, module_type_id |-> None]

\* Mutant: the first id is returned whether it is in use or not.
find_available_id_first(by_id) == SetMin(1 .. MaxModuleId)

\* for id in 1..=255 { if !contains_key(&id) { return id } } return 0
find_available_id(by_id) ==
    LET free == {id \in 1 .. MaxModuleId : id \notin DOMAIN by_id}
    IN  IF free # {} THEN SetMin(free) ELSE 0

\* Mutant: the lookup by uid is skipped, every call allocates.
get_or_create_always_new(by_id, by_uid, uid) ==
    LET new_id == find_available_id(by_id)
        module == NewModule(uid, new_id)
    IN  [by_id  |-> MapInsert(by_id, new_id, module),
         by_uid |-> MapInsert(by_uid, uid, module),
         ret    |-> new_id]

\* Results are records [by_id, by_uid, ret]: the two maps after the call and
\* the value returned.
get_or_create_id_by_uid(by_id, by_uid, uid) ==
    IF uid \in DOMAIN by_uid
    THEN [by_id |-> by_id, by_uid |-> by_uid, ret |-> by_uid[uid].id]
    ELSE LET new_id == find_available_id(by_id)
             module == NewModule(uid, new_id)
         IN  [by_id  |-> MapInsert(by_id, new_id, module),
              by_uid |-> MapInsert(by_uid, uid, module),
              ret    |-> new_id]

register(by_id, by_uid, uid, id) ==
    LET module == NewModule(uid, id)
    IN  [by_id  |-> MapInsert(by_id, id, module),
         by_uid |-> MapInsert(by_uid, uid, module)]

deregister(by_id, by_uid, uid) ==
    IF uid \in DOMAIN by_uid
    THEN [by_id  |-> MapRemove(by_id, by_uid[uid].id),
          by_uid |-> MapRemove(by_uid, uid)]
    ELSE [by_id |-> by_id, by_uid |-> by_uid]

\* The Vec is built in HashMap iteration order, which is unspecified: the
\* model returns the set of its elements.
list(by_id) == {by_id[id] : id \in DOMAIN by_id}

\* Ok(entry.clone()) is [ok |-> TRUE] with the module, Err(A3ModuleNotFound)
\* is [ok |-> FALSE] with none.
get_by_id(by_id, id) ==
    IF id \in DOMAIN by_id THEN [ok |-> TRUE, modules |-> {by_id[id]}]
    ELSE [ok |-> FALSE, modules |-> {}]

\* Mutant: the operands of Option::or swapped, a cached value wins.
update_module_keep_cached(module, name, module_type, module_type_id) ==
    [module EXCEPT !.name = OptionOr(module.name, name),
                   !.module_type = OptionOr(module.module_type, module_type),
                   !.module_type_id = OptionOr(module.module_type_id, module_type_id)]

\* The three assignments of set_properties to one A3Module.
update_module(module, name, module_type, module_type_id) ==
    [module EXCEPT !.name = OptionOr(name, module.name),
                   !.module_type = OptionOr(module_type, module.module_type),
                   !.module_type_id = OptionOr(module_type_id, module.module_type_id)]

set_properties(by_id, by_uid, id, name, module_type, module_type_id) ==
    IF id \in DOMAIN by_id
    THEN LET module == update_module(by_id[id], name, module_type, module_type_id)
         IN  [by_id  |-> [by_id EXCEPT ![id] = module],
              by_uid |-> IF module.uid \in DOMAIN by_uid
                         THEN [by_uid EXCEPT ![module.uid] =
                                  update_module(by_uid[module.uid], name, module_type,
                                                module_type_id)]
                         ELSE by_uid]
    ELSE [by_id |-> by_id, by_uid |-> by_uid]

\* The record kept of the operation processed last and of its response:
\*   op, uid, id, args : the Operation and its fields (NoUid, NoId, NoArgs
\*                       where the Operation has no such field)
\*   ret_id            : the u8 sent back by GetOrCreateIdByUid
\*   ret_ok            : FALSE when the response is an Err
\*   ret_modules       : the modules sent back by List and by GetById
NoUid == 0 - 1

NoId == 0 - 1

NoArgs == << None, None, None >>

RegOp(op, uid, id, args, ret_id, ret_ok, ret_modules) ==
    [op |-> op, uid |-> uid, id |-> id, args |-> args,
     ret_id |-> ret_id, ret_ok |-> ret_ok, ret_modules |-> ret_modules]

\* handle_requests: one arm of the match per action.
OpGetOrCreateIdByUid(uid) ==
    LET r == get_or_create_id_by_uid(modules_by_id, modules_by_uid, uid)
    IN  /\ modules_by_id' = r.by_id
        /\ modules_by_uid' = r.by_uid
        /\ reg_last' = RegOp("GetOrCreateIdByUid", uid, NoId, NoArgs, r.ret, TRUE, {})
        /\ UNCHANGED str_vars

OpRegister(uid, id) ==
    LET r == register(modules_by_id, modules_by_uid, uid, id)
    IN  /\ modules_by_id' = r.by_id
        /\ modules_by_uid' = r.by_uid
        /\ reg_last' = RegOp("Register", uid, id, NoArgs, NoId, TRUE, {})
        /\ UNCHANGED str_vars

OpDeregister(uid) ==
    LET r == deregister(modules_by_id, modules_by_uid, uid)
    IN  /\ modules_by_id' = r.by_id
        /\ modules_by_uid' = r.by_uid
        /\ reg_last' = RegOp("Deregister", uid, NoId, NoArgs, NoId, TRUE, {})
        /\ UNCHANGED str_vars

OpList ==
    /\ reg_last' = RegOp("List", NoUid, NoId, NoArgs, NoId, TRUE, list(modules_by_id))
    /\ UNCHANGED << modules_by_id, modules_by_uid, str_vars >>

OpGetById(id) ==
    LET r == get_by_id(modules_by_id, id)
    IN  /\ reg_last' = RegOp("GetById", NoUid, id, NoArgs, NoId, r.ok, r.modules)
        /\ UNCHANGED << modules_by_id, modules_by_uid, str_vars >>

OpSetProperties(id, name, module_type, module_type_id) ==
    LET r == set_properties(modules_by_id, modules_by_uid, id, name, module_type,
                            module_type_id)
    IN  /\ modules_by_id' = r.by_id
        /\ modules_by_uid' = r.by_uid
        /\ reg_last' = RegOp("SetProperties", NoUid, id,
                             << name, module_type, module_type_id >>, NoId, TRUE, {})
        /\ UNCHANGED str_vars

(***************************************************************************)
(* History of the ids handed out, kept beside the registry.                *)
(*   issued[uid]     : Some(id) when GetOrCreateIdByUid(uid) returned id   *)
(*                     and no Deregister(uid) was processed since          *)
(*   reassigned[uid] : a Register(uid, id') with id' different from the    *)
(*                     issued id was processed since that call             *)
(*   reg_again       : the operation processed last was a                  *)
(*                     GetOrCreateIdByUid(uid) with issued[uid] set and    *)
(*                     reassigned[uid] false                               *)
(***************************************************************************)
HistGetOrCreate(uid) ==
    /\ issued' = [issued EXCEPT ![uid] = Some(reg_last'.ret_id)]
    /\ reassigned' = [reassigned EXCEPT ![uid] = FALSE]
    /\ reg_again' = (issued[uid] # None /\ ~reassigned[uid])

HistRegister(uid, id) ==
    /\ reassigned' = [reassigned EXCEPT
                        ![uid] = @ \/ (issued[uid] # None /\ issued[uid] # Some(id))]
    /\ reg_again' = FALSE
    /\ UNCHANGED issued

HistDeregister(uid) ==
    /\ issued' = [issued EXCEPT ![uid] = None]
    /\ reassigned' = [reassigned EXCEPT ![uid] = FALSE]
    /\ reg_again' = FALSE

\* A read leaves the history of the ids as it is.
HistRead ==
    /\ reg_again' = FALSE
    /\ UNCHANGED << issued, reassigned >>

(***************************************************************************)
(* RegistrySpec: the registry actor fed with any sequence of the           *)
(* operations that create, move and remove entries, and of the reads.      *)
(***************************************************************************)
RegistryNext ==
    \/ \E uid \in Uids :
          /\ OpGetOrCreateIdByUid(uid) /\ HistGetOrCreate(uid)
          /\ UNCHANGED << reg_steps, orch_vars, codec_vars, inbound_vars >>
    \/ \E uid \in Uids, id \in Ids :
          /\ OpRegister(uid, id) /\ HistRegister(uid, id)
          /\ UNCHANGED << reg_steps, orch_vars, codec_vars, inbound_vars >>
    \/ \E uid \in Uids :
          /\ OpDeregister(uid) /\ HistDeregister(uid)
          /\ UNCHANGED << reg_steps, orch_vars, codec_vars, inbound_vars >>
    \/ OpList /\ HistRead /\ UNCHANGED << reg_steps, orch_vars, codec_vars, inbound_vars >>
    \/ \E id \in Ids : OpGetById(id) /\ HistRead /\ UNCHANGED << reg_steps, orch_vars, codec_vars, inbound_vars >>

(***************************************************************************)
(* RegistryPropsSpec: the registry actor fed with at most MaxRegSteps      *)
(* operations, SetProperties included.                                     *)
(***************************************************************************)
\* The (name, module_type, module_type_id) triples SetProperties is sent with.
PropArgs ==
    { << None, None, None >>,
      << Some("n1"), None, None >>,
      << Some("n2"), None, None >>,
      << None, Some("t1"), None >>,
      << None, None, Some("ty1") >>,
      << Some("n1"), Some("t1"), Some("ty1") >> }

RegistryPropsNext ==
    /\ reg_steps < MaxRegSteps
    /\ reg_steps' = reg_steps + 1
    /\ UNCHANGED << hist_vars, orch_vars, codec_vars, inbound_vars >>
    /\ \/ \E uid \in Uids : OpGetOrCreateIdByUid(uid)
       \/ \E uid \in Uids, id \in Ids : OpRegister(uid, id)
       \/ \E uid \in Uids : OpDeregister(uid)
       \/ \E id \in Ids, a \in PropArgs : OpSetProperties(id, a[1], a[2], a[3])

(***************************************************************************)
(* Stream manager: mission_control/streams.rs                              *)
(***************************************************************************)
\* The admin wire ids find_available_wire searches.
WireIds == {A3_ID_ADMIN_WIRES_BASE + id : id \in 0 .. (NumWires - 1)}

\* Reply stream ids of individual modules the environment uses.
IndividualStreamIds == {A3_ID_INDIVIDUAL_MODULE_BASE + 1, A3_ID_INDIVIDUAL_MODULE_BASE + 2}

StreamIds == WireIds \cup IndividualStreamIds

\* oneshot::Sender<CanMessage> values handed to the manager.
Slots == {"s1", "s2"}

\* Stream::new(stream_resp)
NewStream(stream_resp) == [stream_resp |-> Some(stream_resp)]

\* Result<T, StreamError>: [ok |-> TRUE, val |-> v] or [ok |-> FALSE, err |-> e].
StreamOk(v) == [ok |-> TRUE, val |-> v, err |-> "-"]

StreamErr(e) == [ok |-> FALSE, val |-> << >>, err |-> e]

\* Mutant: the occupied check is dropped, insert replaces the stream.
start_stream_replace(strs, stream_id, stream_resp) ==
    [streams |-> MapInsert(strs, stream_id, NewStream(stream_resp)),
     ret |-> IF stream_id \in DOMAIN strs THEN StreamErr("Busy") ELSE StreamOk(<< >>)]

start_stream(strs, stream_id, stream_resp) ==
    IF stream_id \in DOMAIN strs
    THEN [streams |-> strs, ret |-> StreamErr("Busy")]
    ELSE [streams |-> MapInsert(strs, stream_id, NewStream(stream_resp)),
          ret |-> StreamOk(<< >>)]

\* Mutant: the search starts at the second wire.
find_available_wire_skip_first(strs) ==
    LET free == {w \in WireIds \ {A3_ID_ADMIN_WIRES_BASE} : w \notin DOMAIN strs}
    IN  IF free # {} THEN Some(SetMin(free)) ELSE None

\* for id in 0..64 { if !contains_key(&(BASE + id)) { return Some(..) } } None
find_available_wire(strs) ==
    LET free == {w \in WireIds : w \notin DOMAIN strs}
    IN  IF free # {} THEN Some(SetMin(free)) ELSE None

\* Mutant: the first wire is handed out whether it is occupied or not.
create_wire_first_wire(strs, stream_resp) ==
    [streams |-> MapInsert(strs, A3_ID_ADMIN_WIRES_BASE, NewStream(stream_resp)),
     ret |-> StreamOk(<< A3_ID_ADMIN_WIRES_BASE >>)]

\* Operation::CreateWire
create_wire(strs, stream_resp) ==
    LET found == find_available_wire(strs)
    IN  IF found # None
        THEN LET wire_id == found[1]
                 r == start_stream(strs, wire_id, stream_resp)
             IN  [streams |-> r.streams,
                  ret |-> IF r.ret.ok THEN StreamOk(<< wire_id >>) ELSE r.ret]
        ELSE [streams |-> strs, ret |-> StreamErr("Busy")]

\* Mutant: the slot is cloned, not taken.
get_stream_keep(strs, stream_id) ==
    IF stream_id \in DOMAIN strs
    THEN IF strs[stream_id].stream_resp # None
         THEN [streams |-> strs, ret |-> StreamOk(strs[stream_id].stream_resp)]
         ELSE [streams |-> strs, ret |-> StreamErr("Stale")]
    ELSE [streams |-> strs, ret |-> StreamErr("NoSuchStream")]

\* Operation::Get: stream.stream_resp.take()
get_stream(strs, stream_id) ==
    IF stream_id \in DOMAIN strs
    THEN IF strs[stream_id].stream_resp # None
         THEN [streams |-> [strs EXCEPT ![stream_id].stream_resp = None],
               ret |-> StreamOk(strs[stream_id].stream_resp)]
         ELSE [streams |-> strs, ret |-> StreamErr("Stale")]
    ELSE [streams |-> strs, ret |-> StreamErr("NoSuchStream")]

\* Mutant: Continue on an absent id installs the stream (Start's insert).
continue_stream_upsert(strs, stream_id, stream_resp) ==
    [streams |-> MapInsert(strs, stream_id, NewStream(stream_resp)),
     ret |-> IF stream_id \in DOMAIN strs THEN StreamOk(<< >>) ELSE StreamErr("NoSuchStream")]

\* Operation::Continue: stream.stream_resp.replace(stream_resp)
continue_stream(strs, stream_id, stream_resp) ==
    IF stream_id \in DOMAIN strs
    THEN [streams |-> [strs EXCEPT ![stream_id].stream_resp = Some(stream_resp)],
          ret |-> StreamOk(<< >>)]
    ELSE [streams |-> strs, ret |-> StreamErr("NoSuchStream")]

\* Operation::Terminate: self.streams.remove(&stream_id)
terminate_stream(strs, stream_id) ==
    IF stream_id \in DOMAIN strs
    THEN [streams |-> MapRemove(strs, stream_id), ret |-> StreamOk(<< >>)]
    ELSE [streams |-> strs, ret |-> StreamErr("NoSuchStream")]

\* The record kept of the operation processed last and of its response:
\*   op, stream_id, stream_resp : the Operation and its fields
\*   ret_ok, ret_err            : Ok or Err(error_type) sent on op_resp
\*   ret_wire                   : the wire id CreateWire answers with
\*   ret_slot                   : the slot Get answers with
NoStream == 0 - 1

NoSlot == "-"

StrOp(op, stream_id, stream_resp, ret_ok, ret_wire, ret_slot, ret_err) ==
    [op |-> op, stream_id |-> stream_id, stream_resp |-> stream_resp,
     ret_ok |-> ret_ok, ret_wire |-> ret_wire, ret_slot |-> ret_slot, ret_err |-> ret_err]

\* handle_requests: one arm of the match per action.
OpStart(stream_id, stream_resp) ==
    LET r == start_stream(streams, stream_id, stream_resp)
    IN  /\ streams' = r.streams
        /\ str_last' = StrOp("Start", stream_id, stream_resp, r.ret.ok, NoStream, NoSlot,
                             r.ret.err)
        /\ UNCHANGED << reg_vars, hist_vars, reg_steps >>

OpCreateWire(stream_resp) ==
    LET r == create_wire(streams, stream_resp)
    IN  /\ streams' = r.streams
        /\ str_last' = StrOp("CreateWire", NoStream, stream_resp, r.ret.ok,
                             IF r.ret.ok THEN r.ret.val[1] ELSE NoStream, NoSlot, r.ret.err)
        /\ UNCHANGED << reg_vars, hist_vars, reg_steps >>

OpGet(stream_id) ==
    LET r == get_stream(streams, stream_id)
    IN  /\ streams' = r.streams
        /\ str_last' = StrOp("Get", stream_id, NoSlot, r.ret.ok, NoStream,
                             IF r.ret.ok THEN r.ret.val[1] ELSE NoSlot, r.ret.err)
        /\ UNCHANGED << reg_vars, hist_vars, reg_steps >>

OpContinue(stream_id, stream_resp) ==
    LET r == continue_stream(streams, stream_id, stream_resp)
    IN  /\ streams' = r.streams
        /\ str_last' = StrOp("Continue", stream_id, stream_resp, r.ret.ok, NoStream, NoSlot,
                             r.ret.err)
        /\ UNCHANGED << reg_vars, hist_vars, reg_steps >>

OpTerminate(stream_id) ==
    LET r == terminate_stream(streams, stream_id)
    IN  /\ streams' = r.streams
        /\ str_last' = StrOp("Terminate", stream_id, NoSlot, r.ret.ok, NoStream, NoSlot,
                             r.ret.err)
        /\ UNCHANGED << reg_vars, hist_vars, reg_steps >>

(***************************************************************************)
(* StreamSpec: the stream manager actor fed with any sequence of its       *)
(* operations.                                                             *)
(***************************************************************************)
StreamNext ==
    /\ UNCHANGED << orch_vars, codec_vars, inbound_vars >>
    /\ \/ \E stream_id \in StreamIds, stream_resp \in Slots : OpStart(stream_id, stream_resp)
       \/ \E stream_resp \in Slots : OpCreateWire(stream_resp)
       \/ \E stream_id \in StreamIds : OpGet(stream_id)
       \/ \E stream_id \in StreamIds, stream_resp \in Slots :
              OpContinue(stream_id, stream_resp)
       \/ \E stream_id \in StreamIds : OpTerminate(stream_id)

(***************************************************************************)
(* Property codec: analog3/config.rs                                       *)
(*                                                                         *)
(* A Property is [id, length, data] with data a sequence of bytes.  The    *)
(* codec calls are operators from a state of the encoder or of the parser  *)
(* to the state after the call with what the call returned.                *)
(***************************************************************************)
\* Length of the longest property value.
MaxValueLen == 2

\* Length of the longest property list.
MaxProps == 2

\* Size of the largest buffer handed to flush, and of the largest frame fed
\* to the parser.
MaxBufLen == 3

Min(a, b) == IF a <= b THEN a ELSE b

\* Property::vector_u8(id, data) and Property::text(id, value): length is
\* the length of the data.
Property(id, data) == [id |-> id, length |-> Len(data) % 256, data |-> data]

\* A value of k bytes, each byte telling its position.
ValueOfLen(k) == [i \in 1 .. k |-> 64 + i]

\* Property ids of the lists the codec is run on.
CodecPropIds == {2, 3}

CodecProperties == {Property(id, ValueOfLen(k)) : id \in CodecPropIds, k \in 0 .. MaxValueLen}

RECURSIVE ListsOfLen(_)
ListsOfLen(n) ==
    IF n = 0 THEN {<< >>}
    ELSE {Append(l, prop) : l \in ListsOfLen(n - 1), prop \in CodecProperties}

CodecLists == UNION {ListsOfLen(n) : n \in 0 .. MaxProps}

\* PropertyEncoder::new(props)
PropertyEncoder_new ==
    [num_props_sent |-> FALSE, prop_id_sent |-> FALSE, value_length_sent |-> FALSE,
     pos_value |-> 0, pos_prop |-> 0]

\* PropertyEncoder::is_done
is_done(enc, props) == enc.pos_prop = Len(props)

\* PropertyEncoder::update_positions (the state after; its return value is
\* is_done of that state)
update_positions(enc, props, delta) ==
    LET prop == props[enc.pos_prop + 1]
    IN  IF enc.pos_value + delta >= Len(prop.data)
        THEN [enc EXCEPT !.pos_value = 0, !.prop_id_sent = FALSE,
                         !.value_length_sent = FALSE, !.pos_prop = enc.pos_prop + 1]
        ELSE [enc EXCEPT !.pos_value = enc.pos_value + delta]

\* The while loop of flush: out holds out_data[0 .. data_index).
RECURSIVE flush_loop(_, _, _, _)
flush_loop(enc, props, out, out_data_len) ==
    IF Len(out) >= out_data_len
    THEN [encoder |-> enc, out |-> out]
    ELSE
    LET prop == props[enc.pos_prop + 1]
        enc1 == [enc EXCEPT !.prop_id_sent = TRUE]
        out1 == IF enc.prop_id_sent THEN out ELSE Append(out, prop.id)
    IN  IF ~enc.prop_id_sent /\ Len(out1) >= out_data_len
        THEN [encoder |-> enc1, out |-> out1]
        ELSE
        LET enc2 == [enc1 EXCEPT !.value_length_sent = TRUE]
            out2 == IF enc1.value_length_sent THEN out1
                    ELSE Append(out1, Len(prop.data) % 256)
        IN  IF ~enc1.value_length_sent /\ Len(out2) >= out_data_len
            THEN [encoder |-> enc2, out |-> out2]
            ELSE
            LET bytes_to_send == Min(out_data_len - Len(out2),
                                     Len(prop.data) - enc2.pos_value)
                out3 == out2 \o SubSeq(prop.data, enc2.pos_value + 1,
                                       enc2.pos_value + bytes_to_send)
                enc3 == update_positions(enc2, props, bytes_to_send)
            IN  IF is_done(enc3, props)
                THEN [encoder |-> enc3, out |-> out3]
                ELSE flush_loop(enc3, props, out3, out_data_len)

\* PropertyEncoder::flush(out_data): the encoder after the call and the
\* bytes written, out_data[0 .. returned count).
flush(enc, props, out_data_len) ==
    IF out_data_len < 1 \/ is_done(enc, props)
    THEN [encoder |-> enc, out |-> << >>]
    ELSE IF enc.num_props_sent
         THEN flush_loop(enc, props, << >>, out_data_len)
         ELSE flush_loop([enc EXCEPT !.num_props_sent = TRUE], props,
                         << Len(props) % 256 >>, out_data_len)

\* DataFieldParser::new()
DataFieldParser_new ==
    [id |-> 0, length |-> 0, data |-> << >>, id_read |-> FALSE, length_read |-> FALSE,
     data_pos |-> 0]

\* DataFieldParser::data(data, length, offset) on data[0 .. length):
\* [ok, parser, ready, index] for Err and for Ok((ready, index)).
DataFieldParser_data(fp, data, length, offset) ==
    IF fp.length_read /\ fp.data_pos = fp.length
    THEN [ok |-> FALSE, parser |-> fp, ready |-> FALSE, index |-> offset]
    ELSE
    LET fp1 == IF fp.id_read THEN fp ELSE [fp EXCEPT !.id = data[offset + 1], !.id_read = TRUE]
        index1 == IF fp.id_read THEN offset ELSE offset + 1
    IN  IF index1 >= length
        THEN [ok |-> TRUE, parser |-> fp1, ready |-> FALSE, index |-> index1]
        ELSE
        LET fp2 == IF fp1.length_read THEN fp1
                   ELSE [fp1 EXCEPT !.length = data[index1 + 1], !.length_read = TRUE]
            index2 == IF fp1.length_read THEN index1 ELSE index1 + 1
            bytes_left == length - index2
        IN  IF bytes_left <= 0
            THEN [ok |-> TRUE, parser |-> fp2, ready |-> FALSE, index |-> index2]
            ELSE
            LET to_read == Min(fp2.length - fp2.data_pos, bytes_left)
                fp3 == [fp2 EXCEPT !.data = fp2.data \o SubSeq(data, index2 + 1,
                                                               index2 + to_read),
                                   !.data_pos = fp2.data_pos + to_read]
            IN  [ok |-> TRUE, parser |-> fp3, ready |-> fp3.data_pos = fp3.length,
                 index |-> index2 + to_read]

\* DataFieldParser::commit of a field that is ready.
DataFieldParser_commit(fp) == [id |-> fp.id, length |-> fp.length, data |-> fp.data]

\* ChunkParser::new(); chunk is Some(fields) until commit takes it.
ChunkParser_new ==
    [chunk |-> Some(<< >>), target_num_fields |-> 0, num_fields_read |-> FALSE,
     field_parser |-> DataFieldParser_new]

\* The while loop of ChunkParser::data.
RECURSIVE ChunkParser_loop(_, _, _, _)
ChunkParser_loop(parser, data, data_length, index) ==
    IF ~(index < data_length /\ Len(parser.chunk[1]) < parser.target_num_fields)
    THEN [ok |-> TRUE, parser |-> parser,
          done |-> Len(parser.chunk[1]) = parser.target_num_fields]
    ELSE
    LET r == DataFieldParser_data(parser.field_parser, data, data_length, index)
    IN  IF ~r.ok
        THEN [ok |-> FALSE, parser |-> parser, done |-> FALSE]
        ELSE IF r.ready
             THEN ChunkParser_loop(
                     [parser EXCEPT !.chunk = Some(Append(parser.chunk[1],
                                                          DataFieldParser_commit(r.parser))),
                                    !.field_parser = DataFieldParser_new],
                     data, data_length, r.index)
             ELSE ChunkParser_loop([parser EXCEPT !.field_parser = r.parser],
                                   data, data_length, r.index)

\* ChunkParser::data(data, data_length): [ok, parser, done] for Err and for
\* Ok(done).
ChunkParser_data(parser, data, data_length) ==
    IF parser.chunk = None
    THEN [ok |-> FALSE, parser |-> parser, done |-> FALSE]
    ELSE IF parser.num_fields_read /\ Len(parser.chunk[1]) = parser.target_num_fields
         THEN [ok |-> FALSE, parser |-> parser, done |-> FALSE]
         ELSE IF parser.num_fields_read
              THEN ChunkParser_loop(parser, data, data_length, 0)
              ELSE ChunkParser_loop([parser EXCEPT !.target_num_fields = data[1],
                                                   !.num_fields_read = TRUE],
                                    data, data_length, 1)

\* ChunkParser::for_single_field(): new(), then data(&[1], 1).unwrap()
ChunkParser_for_single_field == ChunkParser_data(ChunkParser_new, << 1 >>, 1).parser

\* ChunkParser::commit(): [ok, parser, props] for Err and for Ok(props).
ChunkParser_commit(parser) ==
    IF parser.chunk = None
    THEN [ok |-> FALSE, parser |-> parser, props |-> << >>]
    ELSE IF ~parser.num_fields_read \/ Len(parser.chunk[1]) < parser.target_num_fields
         THEN [ok |-> FALSE, parser |-> parser, props |-> << >>]
         ELSE [ok |-> TRUE, parser |-> [parser EXCEPT !.chunk = None],
               props |-> parser.chunk[1]]

(***************************************************************************)
(* The codec run by a caller.                                              *)
(*   encoder      : [live, props, st], st the fields of the PropertyEncoder*)
(*   chunk_parser : [live, st], st the fields of the ChunkParser           *)
(*   codec_last   : the call made last and what it returned:               *)
(*       op     "new", "flush", "data", "commit", "transfer"               *)
(*       bytes  the bytes flush wrote, the bytes data was given            *)
(*       ok     FALSE when the call returned Err                           *)
(*       done   the bool data returned                                     *)
(*       props  the properties commit returned                             *)
(*       stream all bytes flush wrote since new                            *)
(*       fed    all bytes data was given since new                         *)
(*       input  the bytes the caller of the parser has for it              *)
(***************************************************************************)
NoEncoder == [live |-> FALSE, props |-> << >>, st |-> PropertyEncoder_new]

NoParser == [live |-> FALSE, st |-> ChunkParser_new]

CodecOp(op, bytes, ok, done, props, stream, fed, input) ==
    [op |-> op, bytes |-> bytes, ok |-> ok, done |-> done, props |-> props,
     stream |-> stream, fed |-> fed, input |-> input]

NoCodecOp == CodecOp("none", << >>, TRUE, FALSE, << >>, << >>, << >>, << >>)

other_vars == << reg_vars, hist_vars, reg_steps, str_vars, orch_vars, inbound_vars >>

\* let mut encoder = PropertyEncoder::new(&props)
EncoderNew(props) ==
    /\ ~encoder.live
    /\ encoder' = [live |-> TRUE, props |-> props, st |-> PropertyEncoder_new]
    /\ codec_last' = [NoCodecOp EXCEPT !.op = "new"]
    /\ UNCHANGED << chunk_parser, other_vars >>

\* encoder.flush(&mut buf[..out_data_len])
EncoderFlush(out_data_len) ==
    /\ encoder.live
    /\ LET r == flush(encoder.st, encoder.props, out_data_len)
       IN  /\ encoder' = [encoder EXCEPT !.st = r.encoder]
           /\ codec_last' = [codec_last EXCEPT !.op = "flush", !.bytes = r.out,
                                               !.stream = codec_last.stream \o r.out]
    /\ UNCHANGED << chunk_parser, other_vars >>

\* An encoder for props on one side, ChunkParser::new() on the other.
CodecNew(props) ==
    /\ ~encoder.live
    /\ ~chunk_parser.live
    /\ encoder' = [live |-> TRUE, props |-> props, st |-> PropertyEncoder_new]
    /\ chunk_parser' = [live |-> TRUE, st |-> ChunkParser_new]
    /\ codec_last' = [NoCodecOp EXCEPT !.op = "new"]
    /\ UNCHANGED other_vars

\* while !encoder.is_done(): a frame is flushed and given to the parser.
CodecTransfer(out_data_len) ==
    /\ encoder.live
    /\ chunk_parser.live
    /\ ~is_done(encoder.st, encoder.props)
    /\ LET r == flush(encoder.st, encoder.props, out_data_len)
           d == ChunkParser_data(chunk_parser.st, r.out, Len(r.out))
       IN  /\ encoder' = [encoder EXCEPT !.st = r.encoder]
           /\ chunk_parser' = [chunk_parser EXCEPT !.st = d.parser]
           /\ codec_last' = [codec_last EXCEPT !.op = "transfer", !.bytes = r.out,
                                               !.ok = d.ok, !.done = d.done,
                                               !.stream = codec_last.stream \o r.out,
                                               !.fed = codec_last.fed \o r.out]
    /\ UNCHANGED other_vars

\* ChunkParser::new() with the bytes its caller will feed it.
ParserNew(input) ==
    /\ ~chunk_parser.live
    /\ ~encoder.live
    /\ chunk_parser' = [live |-> TRUE, st |-> ChunkParser_new]
    /\ codec_last' = [NoCodecOp EXCEPT !.op = "new", !.input = input]
    /\ UNCHANGED << encoder, other_vars >>

\* ChunkParser::for_single_field() with the bytes its caller will feed it.
ParserForSingleField(input) ==
    /\ ~chunk_parser.live
    /\ ~encoder.live
    /\ chunk_parser' = [live |-> TRUE, st |-> ChunkParser_for_single_field]
    /\ codec_last' = [NoCodecOp EXCEPT !.op = "for_single_field", !.input = input]
    /\ UNCHANGED << encoder, other_vars >>

\* chunk_parser.data(frame, n) on the next n bytes of the input; when the
\* input is used up the frame is one more byte.
ParserData(n) ==
    /\ chunk_parser.live
    /\ ~encoder.live
    /\ LET pos == Len(codec_last.fed)
           left == Len(codec_last.input) - pos
           frame == IF left = 0 THEN << 0 >>
                    ELSE SubSeq(codec_last.input, pos + 1, pos + n)
           d == ChunkParser_data(chunk_parser.st, frame, Len(frame))
       IN  /\ n <= left \/ (left = 0 /\ n = 1)
           /\ pos <= Len(codec_last.input)
           /\ chunk_parser' = [chunk_parser EXCEPT !.st = d.parser]
           /\ codec_last' = [codec_last EXCEPT !.op = "data", !.bytes = frame,
                                               !.ok = d.ok, !.done = d.done,
                                               !.fed = codec_last.fed \o frame]
    /\ UNCHANGED << encoder, other_vars >>

\* chunk_parser.commit()
ParserCommit ==
    /\ chunk_parser.live
    /\ LET c == ChunkParser_commit(chunk_parser.st)
       IN  /\ chunk_parser' = [chunk_parser EXCEPT !.st = c.parser]
           /\ codec_last' = [codec_last EXCEPT !.op = "commit", !.ok = c.ok,
                                               !.props = c.props, !.bytes = << >>]
    /\ UNCHANGED << encoder, other_vars >>

\* The bytes of a chunk on the wire: num_fields, then id, length and value
\* of each field.
RECURSIVE chunk_fields(_)
chunk_fields(props) ==
    IF props = << >> THEN << >>
    ELSE << Head(props).id, Len(Head(props).data) % 256 >> \o Head(props).data
         \o chunk_fields(Tail(props))

chunk_bytes(props) == << Len(props) % 256 >> \o chunk_fields(props)

BufLens == 1 .. MaxBufLen

(***************************************************************************)
(* EncoderSpec: one PropertyEncoder flushed into buffers of any sizes.     *)
(***************************************************************************)
EncoderNext ==
    \/ \E props \in CodecLists : EncoderNew(props)
    \/ \E out_data_len \in BufLens : EncoderFlush(out_data_len)

(***************************************************************************)
(* CodecSpec: the frames of a PropertyEncoder given to a ChunkParser, then *)
(* commit.                                                                 *)
(***************************************************************************)
CodecNext ==
    \/ \E props \in CodecLists : CodecNew(props)
    \/ \E out_data_len \in BufLens : CodecTransfer(out_data_len)
    \/ encoder.live /\ ParserCommit

(***************************************************************************)
(* DecoderSpec: a ChunkParser given the bytes of a chunk in frames of any  *)
(* sizes, commit at any time.                                              *)
(***************************************************************************)
DecoderNext ==
    \/ \E props \in CodecLists : ParserNew(chunk_bytes(props))
    \/ \E prop \in CodecProperties : ParserForSingleField(chunk_fields(<< prop >>))
    \/ \E n \in BufLens : ParserData(n)
    \/ ~encoder.live /\ ParserCommit

(***************************************************************************)
(* Mission-control orchestrator: mission_control.rs                        *)
(***************************************************************************)
\* Identifiers and opcodes of analog3.rs.
A3_ID_MISSION_CONTROL == 1792

A3_ADMIN_SIGN_IN == 1

A3_ADMIN_NOTIFY_ID == 2

A3_ADMIN_REQ_UID_CANCEL == 3

A3_MC_ASSIGN_MODULE_ID == 2

A3_MC_PING == 3

A3_MC_REQUEST_NAME == 4

A3_MC_REQUEST_CONFIG == 5

A3_MC_CONTINUE_STREAM == 6

A3_MC_MODIFY_CONFIG == 8

A3_IM_REPLY_PING == 1

A3_IM_ID_ASSIGN_ACK == 2

\* initiate_stream: const MAX_TRIALS: usize = 3; let mut sleep_millis = 100u64;
MAX_TRIALS == 3

INITIAL_SLEEP_MILLIS == 100

\* assign_remote_id: for _ in 0..10; Duration::from_millis(50)
ASSIGN_MAX_ATTEMPTS == 10

ASSIGN_INITIAL_TIMEOUT_MILLIS == 50

\* StreamStatus::try_from(byte): Ok(status) or Err.
StreamStatus_try_from(byte) ==
    CASE byte = 0 -> "Ready"
      [] byte = 1 -> "Busy"
      [] byte = 2 -> "NotSupported"
      [] byte = 3 -> "NoSuchStream"
      [] OTHER -> "Err"

\* Module UIDs and ids the bus and the operator use with the orchestrator.
OrchUids == {449756911}

OrchModuleIds == {1}

(***************************************************************************)
(* CAN frames.  An inbound frame is                                        *)
(*   [is_extended, id, data_length, data, chunk]                           *)
(* where data holds the first two bytes of the 8-byte buffer, whatever     *)
(* data_length says (get_data(i) reads the buffer, not the payload), and   *)
(* chunk is what the property decoder makes of the payload when the frame  *)
(* is fed to it:                                                           *)
(*   "partial"     ChunkParser::data -> Ok(false)                          *)
(*   "error"       ChunkParser::data -> Err                                *)
(*   "name"        Ok(true), the chunk holds a Name property               *)
(*   "type"        Ok(true), the chunk holds a ModuleType property of two  *)
(*                 bytes                                                   *)
(*   "short_type"  Ok(true), the chunk holds a ModuleType property of      *)
(*                 fewer than two bytes (bytes 01 01 01 xx: one property,  *)
(*                 id 1, length 1)                                         *)
(*   "name_type"   Ok(true), the last frame of a chunk that holds a Name   *)
(*                 and a ModuleType property of two bytes                  *)
(*   "unknown_type" Ok(true), the chunk holds a ModuleType property of two *)
(*                 bytes whose value is no key of MODULES_SCHEMA           *)
(***************************************************************************)
CanFrame(is_extended, id, data_length, data, chunk) ==
    [is_extended |-> is_extended, id |-> id, data_length |-> data_length,
     data |-> data, chunk |-> chunk]

\* CanMessage::get_data(index)
get_data(message, index) == message.data[index + 1]

NoFrame == CanFrame(FALSE, 0 - 1, 0, << 0, 0 >>, "-")

\* An outbound frame: [id, data_length, data], data the payload bytes.
OutFrame(id, data) == [id |-> id, data_length |-> Len(data), data |-> data]

NoOutFrame == OutFrame(0 - 1, << >>)

\* a3_message::assign_module_id
assign_module_id(remote_uid, remote_id) ==
    OutFrame(A3_ID_MISSION_CONTROL,
             << A3_MC_ASSIGN_MODULE_ID,
                (remote_uid \div 16777216) % 256,
                (remote_uid \div 65536) % 256,
                (remote_uid \div 256) % 256,
                remote_uid % 256,
                remote_id >>)

\* a3_message::ping
ping_message(remote_id, enable_visual) ==
    OutFrame(A3_ID_MISSION_CONTROL,
             IF enable_visual THEN << A3_MC_PING, remote_id, 1 >>
                              ELSE << A3_MC_PING, remote_id >>)

\* a3_message::request_command, continue_stream, modify_config
request_command(opcode, id, wire_num) ==
    OutFrame(A3_ID_MISSION_CONTROL, << opcode, id, wire_num >>)

(***************************************************************************)
(* Inbound dispatch: handle_can_message, handle_extended_message,          *)
(* handle_standard_message.  The result names the handler the frame is     *)
(* given to ("sign_in", "notify_id", "uid_cancel", "stream_reply"), or     *)
(* why it is dropped.                                                      *)
(***************************************************************************)
handle_extended_message(message) ==
    IF message.data_length = 0
    THEN "no_opcode"
    ELSE LET opcode == get_data(message, 0)
         IN  CASE opcode = A3_ADMIN_SIGN_IN -> "sign_in"
               [] opcode = A3_ADMIN_NOTIFY_ID -> "notify_id"
               [] opcode = A3_ADMIN_REQ_UID_CANCEL -> "uid_cancel"
               [] OTHER -> "unknown_opcode"

\* Mutant: every opcode of an individual module's frame is a stream reply.
handle_standard_message_any_opcode(message) ==
    IF message.id >= A3_ID_INDIVIDUAL_MODULE_BASE
    THEN IF message.data_length = 0 THEN "no_opcode" ELSE "stream_reply"
    ELSE IF message.id >= A3_ID_ADMIN_WIRES_BASE THEN "stream_reply" ELSE "ignored"

handle_standard_message(message) ==
    LET remote_id == message.id
    IN  IF remote_id >= A3_ID_INDIVIDUAL_MODULE_BASE
        THEN IF message.data_length = 0
             THEN "no_opcode"
             ELSE LET opcode == get_data(message, 0)
                  IN  CASE opcode = A3_IM_REPLY_PING -> "stream_reply"
                        [] opcode = A3_IM_ID_ASSIGN_ACK -> "stream_reply"
                        [] OTHER -> "unknown_opcode"
        ELSE IF remote_id >= A3_ID_ADMIN_WIRES_BASE
             THEN "stream_reply"
             ELSE "ignored"

handle_can_message(message) ==
    IF message.is_extended
    THEN handle_extended_message(message)
    ELSE handle_standard_message(message)

(***************************************************************************)
(* Spawned tasks.  A task is one tokio::spawn of MissionControl: a command *)
(* of the operator or the ID assignment a sign-in starts.  pc is the await *)
(* the task is suspended at.  The oneshot sender a task hands to the       *)
(* stream manager is named by the task; mailbox[t] is the receiver:        *)
(*   "none"    the task holds no receiver                                  *)
(*   "open"    the sender is alive and nothing was sent                    *)
(*   "msg"     a frame was sent into the channel (mailbox[t].msg)          *)
(*   "closed"  the sender was dropped with nothing sent                    *)
(***************************************************************************)
TaskIds == {"t1", "t2"}

\* The chunks a module is let to send in answer to one request.
MaxChunks == 2

IdleTask ==
    [kind |-> "idle", pc |-> "idle", id |-> NoId, uid |-> NoUid, stream_id |-> NoStream,
     result |-> "-", num_trials |-> 0, wait_ms |-> 0, got |-> "-",
     props |-> << >>, encoder |-> PropertyEncoder_new, out |-> << >>, pushed |-> << >>,
     n_request |-> 0, n_continue |-> 0, n_assign |-> 0,
     got_ready |-> FALSE, slept |-> << >>]

\* A frame that answers no request of the orchestrator, and no frame.
NoRequest == [task |-> "-", n |-> 0]

NoBox == [st |-> "none", msg |-> NoFrame]

OpenBox == [st |-> "open", msg |-> NoFrame]

\* The sender in the slot of a stream, None when the slot or the stream is not there.
SlotOf(strs, stream_id) ==
    IF stream_id \in DOMAIN strs THEN strs[stream_id].stream_resp ELSE None

\* Dropping a oneshot::Sender wakes its receiver with RecvError.
DropSender(mb, stream_resp) ==
    IF stream_resp # None /\ mb[stream_resp[1]].st = "open"
    THEN [mb EXCEPT ![stream_resp[1]].st = "closed"]
    ELSE mb

\* stream_resp_tx.send(in_message): delivered when the receiver is alive.
SendInto(mb, slot, message) ==
    IF mb[slot].st = "open"
    THEN [mb EXCEPT ![slot] = [st |-> "msg", msg |-> message]]
    ELSE mb

orch_frame == << hist_vars, reg_steps >>

(***************************************************************************)
(* Commands of the operator: MissionControl::ping, get_name, get_config,   *)
(* set_config spawn a task.                                                *)
(***************************************************************************)
SpawnCommand(t, kind, pc, id, stream_id, props) ==
    /\ tasks[t].kind = "idle"
    /\ tasks' = [tasks EXCEPT ![t] = [IdleTask EXCEPT !.kind = kind, !.pc = pc, !.id = id,
                                                      !.stream_id = stream_id,
                                                      !.props = props]]
    /\ UNCHANGED << reg_vars, str_vars, orch_frame, mailbox, acked, can_last, in_last, codec_vars, inbound_vars >>

CmdPing(t, id) ==
    SpawnCommand(t, "ping", "start", id, id + A3_ID_INDIVIDUAL_MODULE_BASE, << >>)

CmdGetName(t, id) == SpawnCommand(t, "get_name", "create_wire", id, NoStream, << >>)

CmdGetConfig(t, id) == SpawnCommand(t, "get_config", "create_wire", id, NoStream, << >>)

\* MissionControl::set_config(id, props, resp)
CmdSetConfig(t, id, props) ==
    SpawnCommand(t, "set_config", "create_wire", id, NoStream, props)

(***************************************************************************)
(* ping: ping_core, then resp.send(result), then terminate_stream.         *)
(***************************************************************************)
PingStart(t) ==
    /\ tasks[t].kind = "ping"
    /\ tasks[t].pc = "start"
    /\ OpStart(tasks[t].stream_id, t)
    /\ IF str_last'.ret_ok
       THEN /\ mailbox' = [mailbox EXCEPT ![t] = OpenBox]
            /\ can_last' = ping_message(tasks[t].id, FALSE)
            /\ tasks' = [tasks EXCEPT ![t].pc = "wait"]
       ELSE /\ tasks' = [tasks EXCEPT ![t].pc = "terminate",
                                      ![t].result = "A3StreamConflict"]
            /\ UNCHANGED << mailbox, can_last >>
    /\ UNCHANGED << acked, in_last, codec_vars, inbound_vars >>

\* timeout(Duration::from_secs(10), stream_resp_rx): Ok(_) => Ok(()), Err(_) => Timeout.
\* A dropped sender resolves the receiver with Ok(Err(RecvError)), which is Ok(_).
PingWait(t) ==
    /\ tasks[t].kind = "ping"
    /\ tasks[t].pc = "wait"
    /\ tasks' = [tasks EXCEPT ![t].pc = "terminate",
                              ![t].result = IF mailbox[t].st = "open" THEN "Timeout" ELSE "Ok"]
    /\ mailbox' = [mailbox EXCEPT ![t] = NoBox]
    /\ UNCHANGED << reg_vars, str_vars, orch_frame, acked, can_last, in_last, codec_vars, inbound_vars >>

\* terminate_stream: term_resp_rx.await.unwrap().unwrap() panics on Err.
TaskTerminate(t) ==
    /\ tasks[t].kind \in {"ping", "get_name", "get_config", "set_config"}
    /\ tasks[t].pc = "terminate"
    /\ OpTerminate(tasks[t].stream_id)
    /\ mailbox' = DropSender(mailbox, SlotOf(streams, tasks[t].stream_id))
    /\ tasks' = [tasks EXCEPT ![t].pc = IF str_last'.ret_ok THEN "done" ELSE "panicked"]
    /\ UNCHANGED << acked, can_last, in_last, codec_vars, inbound_vars >>

(***************************************************************************)
(* ID assignment: handle_remote_sign_in, assign_remote_id.                 *)
(***************************************************************************)
AssignGetId(t) ==
    /\ tasks[t].kind = "id_assign"
    /\ tasks[t].pc = "get_id"
    /\ OpGetOrCreateIdByUid(tasks[t].uid)
    /\ tasks' = [tasks EXCEPT ![t].pc = "send",
                              ![t].id = reg_last'.ret_id,
                              ![t].stream_id = reg_last'.ret_id + A3_ID_INDIVIDUAL_MODULE_BASE,
                              ![t].wait_ms = ASSIGN_INITIAL_TIMEOUT_MILLIS]
    /\ UNCHANGED << orch_frame, mailbox, acked, can_last, in_last, codec_vars, inbound_vars >>

AssignSend(t) ==
    /\ tasks[t].kind = "id_assign"
    /\ tasks[t].pc = "send"
    /\ can_last' = assign_module_id(tasks[t].uid, tasks[t].id)
    /\ tasks' = [tasks EXCEPT ![t].pc = "start", ![t].n_assign = @ + 1]
    /\ UNCHANGED << reg_vars, str_vars, orch_frame, mailbox, acked, in_last, codec_vars, inbound_vars >>

\* start_stream(streams_tx.clone(), stream_id).await?
AssignStart(t) ==
    /\ tasks[t].kind = "id_assign"
    /\ tasks[t].pc = "start"
    /\ OpStart(tasks[t].stream_id, t)
    /\ IF str_last'.ret_ok
       THEN /\ mailbox' = [mailbox EXCEPT ![t] = OpenBox]
            /\ tasks' = [tasks EXCEPT ![t].pc = "wait"]
       ELSE /\ tasks' = [tasks EXCEPT ![t].pc = "done", ![t].result = "A3StreamConflict"]
            /\ UNCHANGED mailbox
    /\ UNCHANGED << acked, can_last, in_last, codec_vars, inbound_vars >>

\* let result = timeout(timeout_interval, stream_resp_rx).await;
AssignWait(t) ==
    /\ tasks[t].kind = "id_assign"
    /\ tasks[t].pc = "wait"
    /\ tasks' = [tasks EXCEPT ![t].pc = "terminate",
                              ![t].got = IF mailbox[t].st = "open" THEN "timeout" ELSE "ok"]
    /\ mailbox' = [mailbox EXCEPT ![t] = NoBox]
    /\ UNCHANGED << reg_vars, str_vars, orch_frame, acked, can_last, in_last, codec_vars, inbound_vars >>

\* terminate_stream(..).await; match result { Ok(_) => break, Err(_) => retry }
AssignTerminate(t) ==
    /\ tasks[t].kind = "id_assign"
    /\ tasks[t].pc = "terminate"
    /\ OpTerminate(tasks[t].stream_id)
    /\ mailbox' = DropSender(mailbox, SlotOf(streams, tasks[t].stream_id))
    /\ LET task == tasks[t]
       IN  tasks' = [tasks EXCEPT ![t] =
                       IF ~str_last'.ret_ok
                       THEN [task EXCEPT !.pc = "panicked"]
                       ELSE IF task.got = "ok"
                       THEN [task EXCEPT !.pc = "done", !.result = "Ok"]
                       ELSE [task EXCEPT !.pc = IF task.num_trials + 1 < ASSIGN_MAX_ATTEMPTS
                                                THEN "send" ELSE "done",
                                         !.num_trials = task.num_trials + 1,
                                         !.wait_ms = task.wait_ms * 2,
                                         !.got = "-",
                                         !.result = "Timeout"]]
    /\ UNCHANGED << acked, can_last, in_last, codec_vars, inbound_vars >>

(***************************************************************************)
(* get-name and get-config: create_wire, initiate_stream, then the pull    *)
(* loop of get_name_core / get_config_core.                                *)
(***************************************************************************)
RequestOpcode(kind) ==
    IF kind = "get_name" THEN A3_MC_REQUEST_NAME ELSE A3_MC_REQUEST_CONFIG

\* wire_num = (wire_id - A3_ID_ADMIN_WIRES_BASE) as u8
WireNum(wire_id) == (wire_id - A3_ID_ADMIN_WIRES_BASE) % 256

\* create_wire(streams_tx.clone()).await, then the first request_command of
\* initiate_stream; Err(e) => resp.send(Err(e)).
PullCreateWire(t) ==
    /\ tasks[t].kind \in {"get_name", "get_config"}
    /\ tasks[t].pc = "create_wire"
    /\ OpCreateWire(t)
    /\ IF str_last'.ret_ok
       THEN /\ mailbox' = [mailbox EXCEPT ![t] = OpenBox]
            /\ can_last' = request_command(RequestOpcode(tasks[t].kind), tasks[t].id,
                                           WireNum(str_last'.ret_wire))
            /\ tasks' = [tasks EXCEPT ![t].pc = "init_wait",
                                      ![t].stream_id = str_last'.ret_wire,
                                      ![t].wait_ms = INITIAL_SLEEP_MILLIS,
                                      ![t].n_request = 1]
       ELSE /\ tasks' = [tasks EXCEPT ![t].pc = "done", ![t].result = "A3StreamConflict"]
            /\ UNCHANGED << mailbox, can_last >>
    /\ UNCHANGED << acked, in_last, codec_vars, inbound_vars >>

\* Mutant: the backoff is not doubled.
BusyOutcome_fixed_sleep(task) ==
    IF task.num_trials + 1 = MAX_TRIALS
    THEN [task EXCEPT !.pc = "terminate", !.num_trials = MAX_TRIALS,
                      !.result = "A3CommunicationError"]
    ELSE [task EXCEPT !.pc = "init_continue",
                      !.num_trials = task.num_trials + 1,
                      !.slept = Append(task.slept, task.wait_ms)]

\* initiate_stream after a Busy status: num_trials += 1, give up at
\* MAX_TRIALS, else sleep(sleep_millis) and sleep_millis *= 2.
BusyOutcome(task) ==
    IF task.num_trials + 1 = MAX_TRIALS
    THEN [task EXCEPT !.pc = "terminate", !.num_trials = MAX_TRIALS,
                      !.result = "A3CommunicationError"]
    ELSE [task EXCEPT !.pc = "init_continue",
                      !.num_trials = task.num_trials + 1,
                      !.slept = Append(task.slept, task.wait_ms),
                      !.wait_ms = task.wait_ms * 2]

\* Mutant: every status but Busy lets the pull go on.
StatusOutcome_any_ready(task, status) ==
    IF status = "Busy"
    THEN BusyOutcome(task)
    ELSE [task EXCEPT !.pc = "pull_continue", !.got_ready = TRUE]

\* initiate_stream: StreamStatus::try_from(message.data()[0]), match status.
StatusOutcome(task, status) ==
    CASE status = "Err" -> [task EXCEPT !.pc = "terminate", !.result = "A3InvalidValue"]
      [] status = "Ready" -> [task EXCEPT !.pc = "pull_continue", !.got_ready = TRUE]
      [] status = "Busy" -> BusyOutcome(task)
      [] OTHER -> [task EXCEPT !.pc = "terminate", !.result = "A3CommunicationError"]

\* initiate_stream: the reply to the request, awaited under timeout.
PullInitWait(t) ==
    /\ tasks[t].kind \in {"get_name", "get_config"}
    /\ tasks[t].pc = "init_wait"
    /\ LET task == tasks[t]
           box == mailbox[t]
           fail(e) == [task EXCEPT !.pc = "terminate", !.result = e]
       IN  tasks' = [tasks EXCEPT ![t] =
              CASE box.st = "open" -> fail("Timeout")
                [] box.st = "closed" -> [task EXCEPT !.pc = "panicked"]
                [] box.msg.data_length < 1 -> fail("A3ProtocolError")
                [] OTHER -> StatusOutcome(task, StreamStatus_try_from(get_data(box.msg, 0)))]
    /\ mailbox' = [mailbox EXCEPT ![t] = NoBox]
    /\ UNCHANGED << reg_vars, str_vars, orch_frame, acked, can_last, in_last, codec_vars, inbound_vars >>

\* initiate_stream after the sleep: continue_stream(..).await?, then the loop
\* sends the request again.
PullInitContinue(t) ==
    /\ tasks[t].kind \in {"get_name", "get_config"}
    /\ tasks[t].pc = "init_continue"
    /\ OpContinue(tasks[t].stream_id, t)
    /\ IF str_last'.ret_ok
       THEN /\ mailbox' = [DropSender(mailbox, SlotOf(streams, tasks[t].stream_id))
                             EXCEPT ![t] = OpenBox]
            /\ can_last' = request_command(RequestOpcode(tasks[t].kind), tasks[t].id,
                                           WireNum(tasks[t].stream_id))
            /\ tasks' = [tasks EXCEPT ![t].pc = "init_wait", ![t].n_request = @ + 1]
       ELSE /\ tasks' = [tasks EXCEPT ![t].pc = "terminate", ![t].result = "RuntimeError"]
            /\ UNCHANGED << mailbox, can_last >>
    /\ UNCHANGED << acked, in_last, codec_vars, inbound_vars >>

\* The pull loop: continue_stream(..).await?, then a3_message::continue_stream.
PullContinue(t) ==
    /\ tasks[t].kind \in {"get_name", "get_config"}
    /\ tasks[t].pc = "pull_continue"
    /\ tasks[t].n_continue < MaxChunks
    /\ OpContinue(tasks[t].stream_id, t)
    /\ IF str_last'.ret_ok
       THEN /\ mailbox' = [DropSender(mailbox, SlotOf(streams, tasks[t].stream_id))
                             EXCEPT ![t] = OpenBox]
            /\ can_last' = request_command(A3_MC_CONTINUE_STREAM, tasks[t].id,
                                           WireNum(tasks[t].stream_id))
            /\ tasks' = [tasks EXCEPT ![t].pc = "pull_wait", ![t].n_continue = @ + 1]
       ELSE /\ tasks' = [tasks EXCEPT ![t].pc = "terminate", ![t].result = "RuntimeError"]
            /\ UNCHANGED << mailbox, can_last >>
    /\ UNCHANGED << acked, in_last, codec_vars, inbound_vars >>

\* Property::get_value_with_type(value_type) on a property with the bytes
\* data: indexing data past its end panics.
get_value_with_type(data, value_type) ==
    LET needs == CASE value_type \in {"U8", "Boolean"} -> 1
                   [] value_type = "U16" -> 2
                   [] value_type = "U32" -> 4
                   [] OTHER -> 0
    IN  IF Len(data) < needs
        THEN [panic |-> TRUE, value |-> << >>]
        ELSE [panic |-> FALSE,
              value |-> CASE value_type = "U8" -> << data[1] >>
                          [] value_type = "Boolean" -> << IF data[1] # 0 THEN 1 ELSE 0 >>
                          [] value_type = "U16" -> << data[1] * 256 + data[2] >>
                          [] value_type = "U32" ->
                               << data[1] * 16777216 + data[2] * 65536
                                  + data[3] * 256 + data[4] >>
                          [] value_type = "VectorU16" ->
                               [i \in 1 .. (Len(data) \div 2) |->
                                   data[2 * i - 1] * 256 + data[2 * i]]
                          [] OTHER -> data]

\* The bytes of the ModuleType property of a chunk, None when it holds none.
ModuleTypeData(chunk) ==
    CASE chunk \in {"type", "name_type"} -> Some(<< 0, 1 >>)
      [] chunk = "unknown_type" -> Some(<< 0, 2 >>)
      [] chunk = "short_type" -> Some(<< 1 >>)
      [] OTHER -> None

\* Mutant: the ModuleType property is not collected.
ChunkProps_name_only(chunk) ==
    IF chunk \in {"name", "name_type"} THEN << Some("n1"), None, None >> ELSE NoArgs

\* The (name, module_type, module_type_id) get_config_core collects from the
\* properties of a chunk.
ChunkProps(chunk) ==
    CASE chunk = "name" -> << Some("n1"), None, None >>
      [] chunk = "type" -> << None, Some("t1"), Some("ty1") >>
      [] chunk = "name_type" -> << Some("n1"), Some("t1"), Some("ty1") >>
      [] chunk = "unknown_type" -> << None, None, Some("ty2") >>
      [] OTHER -> NoArgs

\* The pull loop: the frame awaited under timeout is fed to the decoder.
\* get_config_core reads a ModuleType property with get_value_with_type(U16),
\* which indexes data[1]: a property of fewer than two bytes panics the task.
PullWait(t) ==
    /\ tasks[t].kind \in {"get_name", "get_config"}
    /\ tasks[t].pc = "pull_wait"
    /\ LET task == tasks[t]
           box == mailbox[t]
           chunk == box.msg.chunk
           fail(e) == [task EXCEPT !.pc = "terminate", !.result = e]
           next ==
              CASE box.st = "open" -> fail("Timeout")
                [] box.st = "closed" -> [task EXCEPT !.pc = "panicked"]
                [] box.msg.data_length < 1 -> fail("RuntimeError")
                [] chunk = "error" -> fail("RuntimeError")
                [] chunk = "partial" -> [task EXCEPT !.pc = "pull_continue"]
                [] /\ task.kind = "get_config"
                   /\ ModuleTypeData(chunk) # None
                   /\ get_value_with_type(ModuleTypeData(chunk)[1], "U16").panic ->
                     [task EXCEPT !.pc = "panicked"]
                [] OTHER -> fail("Ok")
           commits == /\ task.kind = "get_config"
                      /\ next.result = "Ok"
           args == ChunkProps(chunk)
       IN  /\ tasks' = [tasks EXCEPT ![t] = next]
           /\ IF commits
              THEN OpSetProperties(task.id, args[1], args[2], args[3])
              ELSE UNCHANGED << reg_vars, str_vars >>
    /\ mailbox' = [mailbox EXCEPT ![t] = NoBox]
    /\ UNCHANGED << orch_frame, acked, can_last, in_last, codec_vars, inbound_vars >>

(***************************************************************************)
(* set-config: create_wire, then set_config_core.  The task keeps          *)
(*   props, encoder : the list and the PropertyEncoder over it             *)
(*   out            : the bytes flushed into out_message, not yet sent     *)
(*   pushed         : history, the payloads of the data frames sent        *)
(***************************************************************************)
\* PropertyId::Name as u8
A3_PROP_NAME == 2

\* The bytes of the data buffer of a CAN frame, out_message.mut_data()
A3_DATA_LENGTH == 8

\* The frame set_config_core sends on the wire with the encoder's bytes.
DataFrame(wire_addr, payload) == OutFrame(wire_addr, payload)

\* Property::get_value_as_string of a value of ASCII bytes: the bytes are
\* their own UTF-8 string.
get_value_as_string(prop) == prop.data

\* for prop in &props: the first property whose id is PropertyId::Name.
RECURSIVE first_name(_)
first_name(props) ==
    IF props = << >> THEN None
    ELSE IF Head(props).id = A3_PROP_NAME THEN Some(get_value_as_string(Head(props)))
         ELSE first_name(Tail(props))

\* Mutant: the name is mirrored whether or not props holds one.
PushFinish_always(task) ==
    OpSetProperties(task.id, first_name(task.props), None, None)

\* After the loop: SetProperties when props holds a Name, then Ok(()).
PushFinish(task) ==
    IF first_name(task.props) # None
    THEN OpSetProperties(task.id, first_name(task.props), None, None)
    ELSE UNCHANGED << reg_vars, str_vars >>

\* create_wire, a3_message::modify_config, PropertyEncoder::new and the
\* first test of while !encoder.is_done().
PushCreateWire(t) ==
    /\ tasks[t].kind = "set_config"
    /\ tasks[t].pc = "create_wire"
    /\ OpCreateWire(t)
    /\ IF str_last'.ret_ok
       THEN /\ mailbox' = [mailbox EXCEPT ![t] = OpenBox]
            /\ can_last' = request_command(A3_MC_MODIFY_CONFIG, tasks[t].id,
                                           WireNum(str_last'.ret_wire))
            /\ tasks' = [tasks EXCEPT
                            ![t].pc = IF is_done(PropertyEncoder_new, tasks[t].props)
                                      THEN "push_finish" ELSE "push_wait",
                            ![t].encoder = PropertyEncoder_new,
                            ![t].stream_id = str_last'.ret_wire]
       ELSE /\ tasks' = [tasks EXCEPT ![t].pc = "done", ![t].result = "A3StreamConflict"]
            /\ UNCHANGED << mailbox, can_last >>
    /\ UNCHANGED << acked, in_last, codec_vars, inbound_vars >>

\* while !encoder.is_done(): the solicitation awaited under timeout, then
\* encoder.flush(out_message.mut_data()); the frame is sent here when the
\* encoder is done, after the Continue otherwise.
PushWait(t) ==
    /\ tasks[t].kind = "set_config"
    /\ tasks[t].pc = "push_wait"
    /\ LET task == tasks[t]
           box == mailbox[t]
           r == flush(task.encoder, task.props, A3_DATA_LENGTH)
       IN  CASE box.st = "open" ->
                  /\ tasks' = [tasks EXCEPT ![t].pc = "terminate", ![t].result = "Timeout"]
                  /\ UNCHANGED can_last
             [] box.st = "closed" ->
                  /\ tasks' = [tasks EXCEPT ![t].pc = "panicked"]
                  /\ UNCHANGED can_last
             [] box.st = "msg" /\ ~is_done(r.encoder, task.props) ->
                  /\ tasks' = [tasks EXCEPT ![t].pc = "push_continue",
                                            ![t].encoder = r.encoder,
                                            ![t].out = r.out]
                  /\ UNCHANGED can_last
             [] OTHER ->
                  /\ tasks' = [tasks EXCEPT ![t].pc = "push_finish",
                                            ![t].encoder = r.encoder,
                                            ![t].pushed = Append(task.pushed, r.out)]
                  /\ can_last' = DataFrame(task.stream_id, r.out)
    /\ mailbox' = [mailbox EXCEPT ![t] = NoBox]
    /\ UNCHANGED << reg_vars, str_vars, orch_frame, acked, in_last, codec_vars, inbound_vars >>

\* if !encoder.is_done() { continue_stream(..).await? }; can_tx.send(out_message)
PushContinue(t) ==
    /\ tasks[t].kind = "set_config"
    /\ tasks[t].pc = "push_continue"
    /\ OpContinue(tasks[t].stream_id, t)
    /\ IF str_last'.ret_ok
       THEN /\ mailbox' = [DropSender(mailbox, SlotOf(streams, tasks[t].stream_id))
                             EXCEPT ![t] = OpenBox]
            /\ can_last' = DataFrame(tasks[t].stream_id, tasks[t].out)
            /\ tasks' = [tasks EXCEPT ![t].pc = "push_wait",
                                      ![t].pushed = Append(tasks[t].pushed, tasks[t].out),
                                      ![t].out = << >>]
       ELSE /\ tasks' = [tasks EXCEPT ![t].pc = "terminate", ![t].result = "RuntimeError"]
            /\ UNCHANGED << mailbox, can_last >>
    /\ UNCHANGED << acked, in_last, codec_vars, inbound_vars >>

\* After the loop: the name is mirrored into the registry, then Ok(()).
PushMirror(t) ==
    /\ tasks[t].kind = "set_config"
    /\ tasks[t].pc = "push_finish"
    /\ PushFinish(tasks[t])
    /\ tasks' = [tasks EXCEPT ![t].pc = "terminate", ![t].result = "Ok"]
    /\ UNCHANGED << orch_frame, mailbox, acked, can_last, in_last, codec_vars, inbound_vars >>

(***************************************************************************)
(* handle_can_message with the task it spawns.  The tasks of               *)
(* handle_remote_id_notification and handle_uid_cancel_req send one        *)
(* registry operation; the task of handle_stream_reply asks the stream     *)
(* manager for the slot and sends the frame into it.  A sign-in spawns the *)
(* ID assignment.                                                          *)
(***************************************************************************)
IdleTasks == {t \in TaskIds : tasks[t].kind = "idle"}

\* The task a newly spawned command or assignment runs in.
FirstIdle == {t \in IdleTasks : \A u \in IdleTasks : t = "t1" \/ u # "t1"}

\* The frame is an ID_ASSIGN_ACK on the stream of the assignment t, which
\* has sent its MC_ASSIGN_MODULE_ID and has not timed out.
AcksAssignment(message, t) ==
    /\ ~message.is_extended
    /\ message.data_length >= 1
    /\ get_data(message, 0) = A3_IM_ID_ASSIGN_ACK
    /\ tasks[t].kind = "id_assign"
    /\ tasks[t].pc \in {"start", "wait"}
    /\ message.id = tasks[t].stream_id

HandleCanMessage(message) ==
    LET route == handle_can_message(message)
    IN  /\ CASE route = "sign_in" ->
                  /\ \E t \in FirstIdle :
                        /\ tasks' = [tasks EXCEPT ![t] =
                                        [IdleTask EXCEPT !.kind = "id_assign", !.pc = "get_id",
                                                         !.uid = message.id]]
                        /\ acked' = [acked EXCEPT ![t] = FALSE]
                  /\ UNCHANGED << reg_vars, str_vars, mailbox >>
             [] route = "notify_id" ->
                  /\ OpRegister(message.id, get_data(message, 1))
                  /\ UNCHANGED << tasks, mailbox, acked >>
             [] route = "uid_cancel" ->
                  /\ OpDeregister(message.id)
                  /\ UNCHANGED << tasks, mailbox, acked >>
             [] route = "stream_reply" ->
                  /\ OpGet(message.id)
                  /\ mailbox' = IF str_last'.ret_ok
                                THEN SendInto(mailbox, str_last'.ret_slot, message)
                                ELSE mailbox
                  /\ acked' = [t \in TaskIds |-> acked[t] \/ AcksAssignment(message, t)]
                  /\ UNCHANGED tasks
             [] OTHER ->
                  UNCHANGED << reg_vars, str_vars, tasks, mailbox, acked >>
        /\ UNCHANGED << orch_frame, can_last >>

\* The frame is handled; in_last keeps it with the branch the dispatcher took.
Dispatch(message) ==
    /\ HandleCanMessage(message)
    /\ in_last' = [frame |-> message, route |-> handle_can_message(message)]
    /\ UNCHANGED << codec_vars, inbound_vars >>

Receive(message) ==
    /\ HandleCanMessage(message)
    /\ UNCHANGED << in_last, codec_vars, inbound_vars >>

(***************************************************************************)
(* The inbound handlers as the runtime runs them.  handle_uid_cancel_req,  *)
(* handle_remote_id_notification and handle_stream_reply only spawn a task *)
(* and return; the task sends its operation to the actor when the          *)
(* executor polls it, and the executor polls the spawned tasks in an order *)
(* of its own.  spawned holds the tasks not polled yet, numbered in the    *)
(* order the frames arrived.                                               *)
(***************************************************************************)
\* The inbound frames one behaviour hands to spawned handler tasks.
MaxArrivals == 3

SpawnedTask(seq, route, message) == [seq |-> seq, route |-> route, message |-> message]

\* handle_can_message up to the tokio::spawn of the handler it dispatches to.
HandleCanMessageSpawn(message) ==
    LET route == handle_can_message(message)
    IN  /\ n_arrived < MaxArrivals
        /\ IF route \in {"notify_id", "uid_cancel", "stream_reply"}
           THEN /\ spawned' = spawned \cup {SpawnedTask(n_arrived + 1, route, message)}
                /\ n_arrived' = n_arrived + 1
                /\ UNCHANGED << tasks, acked >>
           ELSE IF route = "sign_in"
           THEN /\ \E t \in FirstIdle :
                      /\ tasks' = [tasks EXCEPT ![t] =
                                      [IdleTask EXCEPT !.kind = "id_assign", !.pc = "get_id",
                                                       !.uid = message.id]]
                      /\ acked' = [acked EXCEPT ![t] = FALSE]
                /\ UNCHANGED << spawned, n_arrived >>
           ELSE UNCHANGED << spawned, n_arrived, tasks, acked >>
        /\ UNCHANGED << reg_vars, str_vars, orch_frame, mailbox, can_last, in_last, codec_vars,
                        bus, mail_re >>

\* The task of handle_remote_id_notification: Operation::Register { uid, id }.
RunRegister(h) ==
    /\ h \in spawned
    /\ h.route = "notify_id"
    /\ OpRegister(h.message.id, get_data(h.message, 1))
    /\ spawned' = spawned \ {h}
    /\ UNCHANGED << orch_frame, orch_vars, codec_vars, n_arrived, bus, mail_re >>

\* The task of handle_uid_cancel_req: Operation::Deregister { uid }.
RunDeregister(h) ==
    /\ h \in spawned
    /\ h.route = "uid_cancel"
    /\ OpDeregister(h.message.id)
    /\ spawned' = spawned \ {h}
    /\ UNCHANGED << orch_frame, orch_vars, codec_vars, n_arrived, bus, mail_re >>

\* The task of handle_stream_reply: Operation::Get, then stream_resp_tx.send.
RunStreamReply(h) ==
    /\ h \in spawned
    /\ h.route = "stream_reply"
    /\ OpGet(h.message.id)
    /\ mailbox' = IF str_last'.ret_ok
                  THEN SendInto(mailbox, str_last'.ret_slot, h.message)
                  ELSE mailbox
    /\ acked' = [t \in TaskIds |-> acked[t] \/ AcksAssignment(h.message, t)]
    /\ spawned' = spawned \ {h}
    /\ UNCHANGED << tasks, can_last, in_last, codec_vars, n_arrived, bus, mail_re >>

(***************************************************************************)
(* OrderSpec: NOTIFY_ID and REQ_UID_CANCEL frames of the modules, each     *)
(* handed to its spawned task, and the registry reads of the operator.     *)
(***************************************************************************)
OrderFrames ==
    {CanFrame(TRUE, uid, 2, << A3_ADMIN_NOTIFY_ID, id >>, "-") : uid \in Uids, id \in 1 .. 2}
    \cup {CanFrame(TRUE, uid, 2, << A3_ADMIN_REQ_UID_CANCEL, 0 >>, "-") : uid \in Uids}

OrderNext ==
    \/ \E message \in OrderFrames : HandleCanMessageSpawn(message)
    \/ \E h \in spawned : RunRegister(h)
    \/ \E h \in spawned : RunDeregister(h)

(***************************************************************************)
(* DispatchSpec: the dispatcher fed with admin frames, replies of          *)
(* individual modules and other bus traffic while pings are in flight; a   *)
(* sign-in gets as far as its registry operation.                          *)
(***************************************************************************)
\* Bytes the model draws for data[0] of an extended frame.
AdminOpcodes == {A3_ADMIN_SIGN_IN, A3_ADMIN_NOTIFY_ID, A3_ADMIN_REQ_UID_CANCEL, 4}

ExtFrames ==
    {CanFrame(TRUE, uid, 0, << 1, 1 >>, "-") : uid \in OrchUids}
    \cup {CanFrame(TRUE, uid, len, << d0, 1 >>, "-") :
             uid \in OrchUids, len \in 1 .. 2, d0 \in AdminOpcodes \ {A3_ADMIN_NOTIFY_ID}}
    \cup {CanFrame(TRUE, uid, len, << A3_ADMIN_NOTIFY_ID, d1 >>, "-") :
             uid \in OrchUids, len \in 1 .. 2, d1 \in 1 .. 2}

ModuleReplyFrames ==
    {CanFrame(FALSE, id, 0, << 1, 1 >>, "-") : id \in IndividualStreamIds}
    \cup {CanFrame(FALSE, id, 1, << d0, 1 >>, "-") :
             id \in IndividualStreamIds, d0 \in {A3_IM_REPLY_PING, A3_IM_ID_ASSIGN_ACK, 3}}

\* 0x100: MIDI timing clock
OtherFrames ==
    {CanFrame(FALSE, 256, 1, << 1, 1 >>, "-"),
     CanFrame(FALSE, A3_ID_ADMIN_WIRES_BASE, 1, << 0, 1 >>, "partial")}

DispatchFrames == ExtFrames \cup ModuleReplyFrames \cup OtherFrames

DispatchNext ==
    \/ \E message \in DispatchFrames : Dispatch(message)
    \/ \E t \in TaskIds : AssignGetId(t)
    \/ \E t \in FirstIdle, id \in OrchModuleIds : CmdPing(t, id)
    \/ \E t \in TaskIds : PingStart(t)
    \/ \E t \in TaskIds : PingWait(t)
    \/ \E t \in TaskIds : TaskTerminate(t)

(***************************************************************************)
(* SignInSpec: sign-ins and their ID assignments beside ping commands of   *)
(* the operator and the replies of the module.                             *)
(***************************************************************************)
SignInFrames ==
    {CanFrame(TRUE, uid, 1, << A3_ADMIN_SIGN_IN, 1 >>, "-") : uid \in OrchUids}
    \cup {CanFrame(FALSE, A3_ID_INDIVIDUAL_MODULE_BASE + id, 1, << d0, 1 >>, "-") :
             id \in OrchModuleIds, d0 \in {A3_IM_REPLY_PING, A3_IM_ID_ASSIGN_ACK}}

SignInNext ==
    \/ \E message \in SignInFrames : Receive(message)
    \/ \E t \in FirstIdle, id \in OrchModuleIds : CmdPing(t, id)
    \/ \E t \in TaskIds : PingStart(t)
    \/ \E t \in TaskIds : PingWait(t)
    \/ \E t \in TaskIds : TaskTerminate(t)
    \/ \E t \in TaskIds : AssignGetId(t)
    \/ \E t \in TaskIds : AssignSend(t)
    \/ \E t \in TaskIds : AssignStart(t)
    \/ \E t \in TaskIds : AssignWait(t)
    \/ \E t \in TaskIds : AssignTerminate(t)

(***************************************************************************)
(* PullSpec: one get-name or get-config command of the operator beside the *)
(* frames modules send on the admin wires.                                 *)
(***************************************************************************)
NoCommandYet == \A t \in TaskIds : tasks[t].kind = "idle"

WireFrames ==
    {CanFrame(FALSE, id, 0, << 0, 0 >>, "-") : id \in WireIds}
    \cup {CanFrame(FALSE, id, 1, << d0, 0 >>, "partial") : id \in WireIds, d0 \in 0 .. 4}
    \cup {CanFrame(FALSE, id, 4, << 1, p[1] >>, p[2]) :
             id \in WireIds,
             p \in {<< 0, "error" >>, << 2, "name" >>, << 1, "type" >>, << 1, "short_type" >>,
                    << 1, "unknown_type" >>}}
    \cup {CanFrame(FALSE, id, 4, << 1, 2 >>, "name_type") : id \in WireIds}

(***************************************************************************)
(* The modules on the bus.  A module answers a request of the orchestrator *)
(* with a frame that takes its time to arrive: bus holds the frames sent,  *)
(* each with the request it answers (the task and the number of the        *)
(* request within the task) and whether it has arrived.                    *)
(***************************************************************************)
\* The requests of one task the modules answer.
MaxAnswered == 3

Request(t, n) == [task |-> t, n |-> n]

BusFrame(frame, re) == [frame |-> frame, re |-> re, here |-> FALSE]

Answered(re) == \E b \in bus : b.re = re

\* The module that was sent MC_ASSIGN_MODULE_ID by the attempt in progress
\* of the assignment t answers with ID_ASSIGN_ACK on 0x700 + id.
ModuleAcks(t) ==
    LET re == Request(t, tasks[t].n_assign)
    IN  /\ tasks[t].kind = "id_assign"
        /\ tasks[t].pc \in {"start", "wait", "terminate"}
        /\ tasks[t].n_assign <= MaxAnswered
        /\ ~Answered(re)
        /\ can_last = assign_module_id(tasks[t].uid, tasks[t].id)
        /\ bus' = bus \cup {BusFrame(CanFrame(FALSE, tasks[t].stream_id, 1,
                                              << A3_IM_ID_ASSIGN_ACK, 0 >>, "-"), re)}
        /\ UNCHANGED << reg_vars, str_vars, orch_frame, orch_vars, codec_vars,
                        spawned, n_arrived, mail_re >>

\* A frame on the bus arrives and is handled; mail_re notes the request
\* answered by a frame that went into a receiver.
BusArrive(b) ==
    /\ b \in bus
    /\ ~b.here
    /\ HandleCanMessage(b.frame)
    /\ bus' = (bus \ {b}) \cup {[b EXCEPT !.here = TRUE]}
    /\ mail_re' = [t \in TaskIds |->
                     IF mailbox'[t] # mailbox[t] /\ mailbox'[t].st = "msg"
                     THEN b.re ELSE mail_re[t]]
    /\ UNCHANGED << in_last, codec_vars, spawned, n_arrived >>

(***************************************************************************)
(* AttributionSpec: one sign-in with its ID assignment and the module      *)
(* that acknowledges the attempts.                                         *)
(***************************************************************************)
AttributionNext ==
    \/ \E message \in SignInFrames : message.is_extended /\ NoCommandYet /\ Receive(message)
    \/ \E t \in TaskIds : AssignGetId(t)
    \/ \E t \in TaskIds : AssignSend(t)
    \/ \E t \in TaskIds : AssignStart(t)
    \/ \E t \in TaskIds : AssignWait(t)
    \/ \E t \in TaskIds : AssignTerminate(t)
    \/ \E t \in TaskIds : ModuleAcks(t)
    \/ \E b \in bus : BusArrive(b)

PullFrames ==
    WireFrames
    \cup {CanFrame(TRUE, uid, 2, << A3_ADMIN_NOTIFY_ID, id >>, "-") :
             uid \in OrchUids, id \in OrchModuleIds}

PullNext ==
    \/ \E message \in PullFrames : Receive(message)
    \/ \E t \in FirstIdle, id \in OrchModuleIds : NoCommandYet /\ CmdGetName(t, id)
    \/ \E t \in FirstIdle, id \in OrchModuleIds : NoCommandYet /\ CmdGetConfig(t, id)
    \/ \E t \in TaskIds : PullCreateWire(t)
    \/ \E t \in TaskIds : PullInitWait(t)
    \/ \E t \in TaskIds : PullInitContinue(t)
    \/ \E t \in TaskIds : PullContinue(t)
    \/ \E t \in TaskIds : PullWait(t)
    \/ \E t \in TaskIds : TaskTerminate(t)

(***************************************************************************)
(* PushSpec: one set-config command of the operator beside the frames      *)
(* modules send on the admin wires.                                        *)
(***************************************************************************)
\* The property lists of the set-config commands: none; a Name of one
\* frame; a Name whose chunk ends with the length byte of an empty value at
\* the end of the first frame; a Name of two frames; no Name.
PushLists ==
    { << >>,
      << Property(A3_PROP_NAME, ValueOfLen(2)) >>,
      << Property(A3_PROP_NAME, ValueOfLen(3)), Property(3, << >>) >>,
      << Property(A3_PROP_NAME, ValueOfLen(9)) >>,
      << Property(3, ValueOfLen(2)) >> }

PushNext ==
    \/ \E message \in PullFrames : Receive(message)
    \/ \E t \in FirstIdle, id \in OrchModuleIds, props \in PushLists :
          NoCommandYet /\ CmdSetConfig(t, id, props)
    \/ \E t \in TaskIds : PushCreateWire(t)
    \/ \E t \in TaskIds : PushWait(t)
    \/ \E t \in TaskIds : PushContinue(t)
    \/ \E t \in TaskIds : PushMirror(t)
    \/ \E t \in TaskIds : TaskTerminate(t)

\* The requests the task t has sent so far: REQUEST and CONTINUE frames of a
\* pull, the MODIFY_CONFIG and the data frames of a push.
RequestsSent(t) ==
    IF tasks[t].kind = "set_config"
    THEN 1 + Len(tasks[t].pushed)
    ELSE tasks[t].n_request + tasks[t].n_continue

\* The frame a module sends on the wire of the request it answers: the
\* stream status after a REQUEST (Ready or Busy), a chunk with the Name
\* after a CONTINUE, a solicitation after MODIFY_CONFIG or a data frame.
ModuleReplies(t) ==
    LET wire == tasks[t].stream_id
    IN  CASE tasks[t].pc = "init_wait" ->
               {CanFrame(FALSE, wire, 1, << status, 0 >>, "partial") : status \in {0, 1}}
          [] tasks[t].pc = "pull_wait" -> {CanFrame(FALSE, wire, 4, << 1, 2 >>, "name")}
          [] OTHER -> {CanFrame(FALSE, wire, 1, << 0, 0 >>, "partial")}

\* The module answers the request the command t waits on.
ModuleAnswers(t) ==
    LET re == Request(t, RequestsSent(t))
    IN  /\ tasks[t].pc \in {"init_wait", "pull_wait", "push_wait"}
        /\ RequestsSent(t) <= MaxAnswered
        /\ ~Answered(re)
        /\ \E frame \in ModuleReplies(t) : bus' = bus \cup {BusFrame(frame, re)}
        /\ UNCHANGED << reg_vars, str_vars, orch_frame, orch_vars, codec_vars,
                        spawned, n_arrived, mail_re >>

(***************************************************************************)
(* WireSpec: get-name and set-config commands of the operator running      *)
(* side by side, and the modules answering them.                           *)
(***************************************************************************)
WireLists == { << Property(A3_PROP_NAME, ValueOfLen(9)) >> }

WireNext ==
    \/ \E t \in FirstIdle, id \in OrchModuleIds : CmdGetName(t, id)
    \/ \E t \in FirstIdle, id \in OrchModuleIds, props \in WireLists : CmdSetConfig(t, id, props)
    \/ \E t \in TaskIds : PullCreateWire(t)
    \/ \E t \in TaskIds : PullInitWait(t)
    \/ \E t \in TaskIds : PullInitContinue(t)
    \/ \E t \in TaskIds : PullContinue(t)
    \/ \E t \in TaskIds : PullWait(t)
    \/ \E t \in TaskIds : PushCreateWire(t)
    \/ \E t \in TaskIds : PushWait(t)
    \/ \E t \in TaskIds : PushContinue(t)
    \/ \E t \in TaskIds : PushMirror(t)
    \/ \E t \in TaskIds : TaskTerminate(t)
    \/ \E t \in TaskIds : ModuleAnswers(t)
    \/ \E b \in bus : BusArrive(b)

(***************************************************************************)
(* ConcurrentSignInSpec: sign-ins of two modules, or twice of one module,  *)
(* with their ID assignments running side by side.                         *)
(***************************************************************************)
ConcurrentSignInFrames ==
    {CanFrame(TRUE, uid, 1, << A3_ADMIN_SIGN_IN, 1 >>, "-") : uid \in Uids}

ConcurrentSignInNext ==
    \/ \E message \in ConcurrentSignInFrames : Receive(message)
    \/ \E t \in TaskIds : AssignGetId(t)
    \/ \E t \in TaskIds : AssignSend(t)
    \/ \E t \in TaskIds : AssignStart(t)
    \/ \E t \in TaskIds : AssignWait(t)
    \/ \E t \in TaskIds : AssignTerminate(t)

(***************************************************************************)
(* ExhaustSpec: modules announce the ids they hold with NOTIFY_ID until    *)
(* the id space is used up, and one more module signs in.                  *)
(***************************************************************************)
\* One module per id of the space announces it (uid 0x1000 + id), and the
\* module that finds no id left signs in.
ExhaustFrames ==
    {CanFrame(TRUE, 4096 + id, 2, << A3_ADMIN_NOTIFY_ID, id >>, "-") : id \in 1 .. MaxModuleId}
    \cup {CanFrame(TRUE, uid, 1, << A3_ADMIN_SIGN_IN, 1 >>, "-") : uid \in OrchUids}

ExhaustNext ==
    \/ \E message \in ExhaustFrames : NoCommandYet /\ Receive(message)
    \/ \E t \in TaskIds : AssignGetId(t)
    \/ \E t \in TaskIds : AssignSend(t)
    \/ \E t \in TaskIds : AssignStart(t)
    \/ \E t \in TaskIds : AssignWait(t)
    \/ \E t \in TaskIds : AssignTerminate(t)

(***************************************************************************)
(* Initial state: A3Modules::new(), StreamManager::new().                  *)
(***************************************************************************)
Init ==
    /\ modules_by_id = EmptyMap
    /\ modules_by_uid = EmptyMap
    /\ reg_last = RegOp("none", NoUid, NoId, NoArgs, NoId, TRUE, {})
    /\ issued = [uid \in Uids |-> None]
    /\ reassigned = [uid \in Uids |-> FALSE]
    /\ reg_again = FALSE
    /\ reg_steps = 0
    /\ streams = EmptyMap
    /\ str_last = StrOp("none", NoStream, NoSlot, TRUE, NoStream, NoSlot, "-")
    /\ tasks = [t \in TaskIds |-> IdleTask]
    /\ mailbox = [t \in TaskIds |-> NoBox]
    /\ acked = [t \in TaskIds |-> FALSE]
    /\ can_last = NoOutFrame
    /\ in_last = [frame |-> NoFrame, route |-> "-"]
    /\ encoder = NoEncoder
    /\ chunk_parser = NoParser
    /\ codec_last = NoCodecOp
    /\ spawned = {}
    /\ n_arrived = 0
    /\ bus = {}
    /\ mail_re = [t \in TaskIds |-> NoRequest]

RegistrySpec == Init /\ [][RegistryNext]_vars

RegistryPropsSpec == Init /\ [][RegistryPropsNext]_vars

StreamSpec == Init /\ [][StreamNext]_vars

SignInSpec == Init /\ [][SignInNext]_vars

PullSpec == Init /\ [][PullNext]_vars

PushSpec == Init /\ [][PushNext]_vars

DispatchSpec == Init /\ [][DispatchNext]_vars

\* The steps of the spawned task t of a get-name or get-config.
PullTaskStep(t) ==
    \/ PullCreateWire(t)
    \/ PullInitWait(t)
    \/ PullInitContinue(t)
    \/ PullContinue(t)
    \/ PullWait(t)
    \/ TaskTerminate(t)

\* PullSpec with every spawned task scheduled and every timer firing; the
\* bus may deliver or withhold any frame.
PullLiveSpec == PullSpec /\ \A t \in TaskIds : WF_vars(PullTaskStep(t))

EncoderSpec == Init /\ [][EncoderNext]_vars

CodecSpec == Init /\ [][CodecNext]_vars

DecoderSpec == Init /\ [][DecoderNext]_vars

OrderSpec == Init /\ [][OrderNext]_vars

AttributionSpec == Init /\ [][AttributionNext]_vars

WireSpec == Init /\ [][WireNext]_vars

ConcurrentSignInSpec == Init /\ [][ConcurrentSignInNext]_vars

ExhaustSpec == Init /\ [][ExhaustNext]_vars

(***************************************************************************)
(* Module registry: claims                                                 *)
(***************************************************************************)
\* The entries held in either map.
EntriesById == {modules_by_id[id] : id \in DOMAIN modules_by_id}

EntriesByUid == {modules_by_uid[uid] : uid \in DOMAIN modules_by_uid}

\* C1: the two index views agree: for every entry E held in either map,
\* by_uid[E.uid] and by_id[E.id] both exist and are equal to E.
C1_ViewsAgree ==
    \A E \in EntriesById \cup EntriesByUid :
        /\ E.uid \in DOMAIN modules_by_uid
        /\ E.id \in DOMAIN modules_by_id
        /\ modules_by_uid[E.uid] = E
        /\ modules_by_id[E.id] = E

\* C2: no two registered modules share an id, no two share a uid, and every
\* registered module's id lies in 1..MaxModuleId (0 is never stored).
C2_UniqueAndInRange ==
    /\ \A m1, m2 \in EntriesById \cup EntriesByUid :
          (m1.id = m2.id) <=> (m1.uid = m2.uid)
    /\ \A m \in EntriesById \cup EntriesByUid : m.id \in 1 .. MaxModuleId
    /\ DOMAIN modules_by_id \subseteq 1 .. MaxModuleId

\* The ids in use before a step: keys of by_id and ids held by a uid.
IdsInUse == (DOMAIN modules_by_id) \cup {m.id : m \in EntriesByUid}

FreeIds == (1 .. MaxModuleId) \ IdsInUse

\* C3: GetOrCreateIdByUid(uid) returns the id already mapped to uid if
\* there is one, otherwise the smallest id of 1..MaxModuleId not in use,
\* and it returns 0 only when every id of 1..MaxModuleId is in use.
C3_GetOrCreateResult ==
    [][ reg_last'.op = "GetOrCreateIdByUid" =>
          LET uid == reg_last'.uid
              ret == reg_last'.ret_id
          IN  /\ uid \in DOMAIN modules_by_uid => ret = modules_by_uid[uid].id
              /\ (uid \notin DOMAIN modules_by_uid /\ FreeIds # {}) =>
                     \A id \in FreeIds : ret <= id /\ ret \in FreeIds
              /\ ret = 0 => FreeIds = {}
      ]_vars

\* C4 as stated: a GetOrCreateIdByUid(uid) that follows an earlier one with
\* no Deregister(uid) in between returns the same id and leaves the registry
\* unchanged.
C4_IdempotentUnlessDeregistered ==
    [][ (reg_last'.op = "GetOrCreateIdByUid" /\ issued[reg_last'.uid] # None) =>
          /\ Some(reg_last'.ret_id) = issued[reg_last'.uid]
          /\ UNCHANGED << modules_by_id, modules_by_uid >>
      ]_vars

\* C4 amended: a GetOrCreateIdByUid(uid) that follows an earlier one with
\* neither a Deregister(uid) nor a Register(uid, id') to another id in
\* between returns the same id and leaves the registry unchanged.
C4_IdempotentUnlessMoved ==
    [][ (/\ reg_last'.op = "GetOrCreateIdByUid"
         /\ issued[reg_last'.uid] # None
         /\ ~reassigned[reg_last'.uid]) =>
          /\ Some(reg_last'.ret_id) = issued[reg_last'.uid]
          /\ UNCHANGED << modules_by_id, modules_by_uid >>
      ]_vars

\* C4 witness: a repeated GetOrCreateIdByUid(uid) was processed after other
\* operations moved the id's entry to another uid.
C4_Witness ==
    /\ reg_again
    /\ reg_last.op = "GetOrCreateIdByUid"
    /\ reg_last.ret_id \in DOMAIN modules_by_id
    /\ modules_by_id[reg_last.ret_id].uid # reg_last.uid

\* C5: after Register(uid, id), uid maps to id, id maps to uid, and no other
\* entry of the registry refers to uid or to id.
C5_RegisterOverwrites ==
    [][ reg_last'.op = "Register" =>
          LET uid == reg_last'.uid
              id == reg_last'.id
          IN  /\ modules_by_uid'[uid].id = id
              /\ modules_by_id'[id].uid = uid
              /\ \A k \in (DOMAIN modules_by_id') \ {id} : modules_by_id'[k].uid # uid
              /\ \A u \in (DOMAIN modules_by_uid') \ {uid} : modules_by_uid'[u].id # id
      ]_vars

\* C6: after Deregister(uid) neither a lookup by uid, nor GetById on the id
\* it held, nor List returns the module of uid; Deregister of an unknown uid
\* changes nothing.
C6_DeregisterRemoves ==
    [][ reg_last'.op = "Deregister" =>
          LET uid == reg_last'.uid
          IN  IF uid \in DOMAIN modules_by_uid
              THEN LET held == get_by_id(modules_by_id', modules_by_uid[uid].id)
                   IN  /\ uid \notin DOMAIN modules_by_uid'
                       /\ \A m \in held.modules : m.uid # uid
                       /\ \A m \in list(modules_by_id') : m.uid # uid
              ELSE UNCHANGED << modules_by_id, modules_by_uid >>
      ]_vars

\* One field after SetProperties: the argument if it is Some, else the old value.
FieldAfter(arg, old) == IF arg = None THEN old ELSE arg

EntryAfter(m, args) ==
    [uid |-> m.uid, id |-> m.id,
     name |-> FieldAfter(args[1], m.name),
     module_type |-> FieldAfter(args[2], m.module_type),
     module_type_id |-> FieldAfter(args[3], m.module_type_id)]

\* C7: SetProperties(id, name, module_type, module_type_id) overwrites the
\* fields given as Some and keeps those given as None, in the entry of id and
\* in the by-uid entry of that module, changes neither uid nor id, and leaves
\* every other entry as it was; on an unregistered id it changes nothing.
C7_SetPropertiesFrame ==
    [][ reg_last'.op = "SetProperties" =>
          LET id == reg_last'.id
              args == reg_last'.args
          IN  IF id \notin DOMAIN modules_by_id
              THEN UNCHANGED << modules_by_id, modules_by_uid >>
              ELSE LET m == modules_by_id[id]
                   IN  /\ DOMAIN modules_by_id' = DOMAIN modules_by_id
                       /\ DOMAIN modules_by_uid' = DOMAIN modules_by_uid
                       /\ modules_by_id'[id] = EntryAfter(m, args)
                       /\ \A k \in (DOMAIN modules_by_id) \ {id} :
                              modules_by_id'[k] = modules_by_id[k]
                       /\ m.uid \in DOMAIN modules_by_uid =>
                              modules_by_uid'[m.uid] = EntryAfter(modules_by_uid[m.uid], args)
                       /\ \A u \in (DOMAIN modules_by_uid) \ {m.uid} :
                              modules_by_uid'[u] = modules_by_uid[u]
      ]_vars

\* C7 witness: SetProperties with a name and no module type was processed
\* for a registered module that had a module type cached, with another
\* module registered.
C7_Witness ==
    /\ reg_last.op = "SetProperties"
    /\ reg_last.args[1] # None
    /\ reg_last.args[2] = None
    /\ reg_last.id \in DOMAIN modules_by_id
    /\ modules_by_id[reg_last.id].name = reg_last.args[1]
    /\ modules_by_id[reg_last.id].module_type # None
    /\ modules_by_id[reg_last.id].uid \in DOMAIN modules_by_uid
    /\ modules_by_uid[modules_by_id[reg_last.id].uid].name = reg_last.args[1]
    /\ \E k \in DOMAIN modules_by_id : k # reg_last.id

(***************************************************************************)
(* Stream manager: claims                                                  *)
(***************************************************************************)
\* The table after a step holds `slot` armed on k and is otherwise unchanged.
InstalledOn(k, slot) ==
    /\ DOMAIN streams' = (DOMAIN streams) \cup {k}
    /\ streams'[k].stream_resp = Some(slot)
    /\ \A j \in (DOMAIN streams) \ {k} : streams'[j] = streams[j]

\* C8: Start(k) on an occupied id returns Busy and leaves the table (the
\* installed slot included) as it is; Start(k) on a free id succeeds and
\* installs the slot; an occupied id stays occupied until Terminate(k) is
\* processed, and Terminate(k) leaves k free.
C8_StartBusyUntilTerminate ==
    [][ /\ str_last'.op = "Start" =>
              LET k == str_last'.stream_id
              IN  IF k \in DOMAIN streams
                  THEN /\ ~str_last'.ret_ok
                       /\ str_last'.ret_err = "Busy"
                       /\ streams' = streams
                  ELSE /\ str_last'.ret_ok
                       /\ InstalledOn(k, str_last'.stream_resp)
        /\ \A k \in DOMAIN streams :
              k \notin DOMAIN streams' =>
                  (str_last'.op = "Terminate" /\ str_last'.stream_id = k)
        /\ str_last'.op = "Terminate" => str_last'.stream_id \notin DOMAIN streams'
      ]_vars

\* C8 witness: a Start was answered Busy while another slot stayed armed.
C8_Witness ==
    /\ str_last.op = "Start"
    /\ ~str_last.ret_ok
    /\ str_last.ret_err = "Busy"
    /\ streams[str_last.stream_id].stream_resp # None
    /\ streams[str_last.stream_id].stream_resp # Some(str_last.stream_resp)

\* C9: CreateWire answers with the smallest wire id of the pool that is not
\* in the table and installs the slot on it; it answers Busy, installing
\* nothing, exactly when every wire id of the pool is in the table.  The
\* wire ids lie below A3_ID_INDIVIDUAL_MODULE_BASE, also for the pool of
\* A3_ADMIN_WIRES_COUNT wires of the source.
C9_CreateWireSmallestFree ==
    [][ str_last'.op = "CreateWire" =>
          LET free == WireIds \ DOMAIN streams
              w == str_last'.ret_wire
          IN  /\ A3_ID_ADMIN_WIRES_BASE + A3_ADMIN_WIRES_COUNT - 1
                     < A3_ID_INDIVIDUAL_MODULE_BASE
              /\ IF free # {}
                 THEN /\ str_last'.ret_ok
                      /\ w \in free
                      /\ \A v \in free : w <= v
                      /\ InstalledOn(w, str_last'.stream_resp)
                      /\ w >= A3_ID_ADMIN_WIRES_BASE
                      /\ w < A3_ID_ADMIN_WIRES_BASE + A3_ADMIN_WIRES_COUNT
                      /\ w < A3_ID_INDIVIDUAL_MODULE_BASE
                 ELSE /\ ~str_last'.ret_ok
                      /\ str_last'.ret_err = "Busy"
                      /\ streams' = streams
      ]_vars

\* C9 witness: CreateWire handed out a wire below one that is occupied,
\* with an individual-module stream in the table.
C9_Witness ==
    /\ str_last.op = "CreateWire"
    /\ str_last.ret_ok
    /\ \E v \in WireIds \cap DOMAIN streams : v > str_last.ret_wire
    /\ \E k \in IndividualStreamIds : k \in DOMAIN streams

\* C10: Get(k) answers NoSuchStream when k is not in the table, Stale when
\* the slot of k was taken, and otherwise hands out the slot and leaves k in
\* the table with an empty slot; an empty or absent slot is armed again only
\* by Start, CreateWire or Continue on that id.
C10_GetTakesSlot ==
    [][ /\ str_last'.op = "Get" =>
              LET k == str_last'.stream_id
              IN  IF k \notin DOMAIN streams
                  THEN /\ ~str_last'.ret_ok
                       /\ str_last'.ret_err = "NoSuchStream"
                       /\ streams' = streams
                  ELSE IF streams[k].stream_resp = None
                  THEN /\ ~str_last'.ret_ok
                       /\ str_last'.ret_err = "Stale"
                       /\ streams' = streams
                  ELSE /\ str_last'.ret_ok
                       /\ Some(str_last'.ret_slot) = streams[k].stream_resp
                       /\ DOMAIN streams' = DOMAIN streams
                       /\ streams'[k].stream_resp = None
                       /\ \A j \in (DOMAIN streams) \ {k} : streams'[j] = streams[j]
        /\ \A k \in DOMAIN streams' :
              (/\ streams'[k].stream_resp # None
               /\ (k \in DOMAIN streams => streams[k].stream_resp = None)) =>
                  \/ str_last'.op \in {"Start", "Continue"} /\ str_last'.stream_id = k
                  \/ str_last'.op = "CreateWire" /\ str_last'.ret_wire = k
      ]_vars

\* C10 witness: a Get was answered Stale on a stream that is in the table.
C10_Witness ==
    /\ str_last.op = "Get"
    /\ str_last.ret_err = "Stale"
    /\ str_last.stream_id \in DOMAIN streams
    /\ streams[str_last.stream_id].stream_resp = None

\* C11: Continue(k, slot) on a stream in the table arms k with the slot and
\* changes nothing else, so that a Get(k) processed next succeeds with that
\* slot; on an id that is not in the table it answers NoSuchStream and leaves
\* the table as it is.
C11_ContinueRearms ==
    [][ /\ str_last'.op = "Continue" =>
              LET k == str_last'.stream_id
              IN  IF k \in DOMAIN streams
                  THEN /\ str_last'.ret_ok
                       /\ DOMAIN streams' = DOMAIN streams
                       /\ streams'[k].stream_resp = Some(str_last'.stream_resp)
                       /\ \A j \in (DOMAIN streams) \ {k} : streams'[j] = streams[j]
                  ELSE /\ ~str_last'.ret_ok
                       /\ str_last'.ret_err = "NoSuchStream"
                       /\ streams' = streams
        /\ (/\ str_last.op = "Continue"
            /\ str_last.ret_ok
            /\ str_last'.op = "Get"
            /\ str_last'.stream_id = str_last.stream_id) =>
                  /\ str_last'.ret_ok
                  /\ str_last'.ret_slot = str_last.stream_resp
      ]_vars

\* C11 witness: a Continue was answered Ok on a stream of the table, which
\* now holds the fresh slot, with another stream in the table.
C11_Witness ==
    /\ str_last.op = "Continue"
    /\ str_last.ret_ok
    /\ str_last.stream_id \in DOMAIN streams
    /\ streams[str_last.stream_id].stream_resp = Some(str_last.stream_resp)
    /\ \E j \in DOMAIN streams : j # str_last.stream_id

(***************************************************************************)
(* Claims about the orchestrator.                                          *)
(***************************************************************************)
\* The step is the terminate_stream call of task t.
Terminates(t) == tasks[t].pc = "terminate" /\ tasks'[t].pc # "terminate"

\* C12: Terminate(stream_id) removes the entry; on an id that is not mapped
\* it answers NoSuchStream and leaves the table unchanged, and the task that
\* issued it goes on and finishes normally.
C12_TerminateNonFatal ==
    [][ \A t \in TaskIds :
          Terminates(t) =>
             LET k == tasks[t].stream_id
             IN  /\ str_last'.op = "Terminate"
                 /\ str_last'.stream_id = k
                 /\ IF k \in DOMAIN streams
                    THEN /\ str_last'.ret_ok
                         /\ DOMAIN streams' = (DOMAIN streams) \ {k}
                         /\ \A j \in DOMAIN streams' : streams'[j] = streams[j]
                    ELSE /\ ~str_last'.ret_ok
                         /\ str_last'.ret_err = "NoSuchStream"
                         /\ streams' = streams
                         /\ tasks'[t].pc # "panicked"
      ]_vars

\* The step is the GetOrCreateIdByUid of the assignment a sign-in spawned.
GetsId(t) == tasks[t].pc = "get_id" /\ tasks'[t].pc # "get_id"

\* C13: no inbound frame changes the module registry unless it is extended
\* and carries SIGN_IN, NOTIFY_ID or REQ_UID_CANCEL with the payload the
\* opcode needs: the opcode byte, and for NOTIFY_ID the id byte after it.
C13_RegistryMutationGuard ==
    [][ (modules_by_uid' # modules_by_uid \/ modules_by_id' # modules_by_id) =>
          \/ \E t \in TaskIds : GetsId(t)
          \/ LET message == in_last'.frame
             IN  /\ message.is_extended
                 /\ message.data_length >= 1
                 /\ get_data(message, 0) \in {A3_ADMIN_NOTIFY_ID, A3_ADMIN_REQ_UID_CANCEL}
                 /\ get_data(message, 0) = A3_ADMIN_NOTIFY_ID => message.data_length >= 2
      ]_vars

\* The step hands the frame in_last' to handle_stream_reply: a Get on
\* stream_id = frame.id, and the frame sent into the slot the Get returned.
RoutedAsReply(message) ==
    LET k == message.id
    IN  /\ str_last'.op = "Get"
        /\ str_last'.stream_id = k
        /\ IF k \in DOMAIN streams /\ streams[k].stream_resp # None
           THEN /\ str_last'.ret_ok
                /\ streams'[k].stream_resp = None
                /\ mailbox' = SendInto(mailbox, streams[k].stream_resp[1], message)
           ELSE /\ ~str_last'.ret_ok
                /\ streams' = streams
                /\ mailbox' = mailbox

\* The step issues no operation to the stream manager or the registry.
NoOperation == UNCHANGED << reg_vars, str_vars, mailbox >>

\* C14: a standard frame with id >= INDIVIDUAL_MODULE_BASE is routed as a
\* stream reply on stream_id = frame.id only if data[0] is IM_REPLY_PING or
\* IM_ID_ASSIGN_ACK and is dropped otherwise; with ADMIN_WIRES_BASE <= id <
\* INDIVIDUAL_MODULE_BASE it is routed as a stream reply on stream_id =
\* frame.id; with a lower id it is ignored and no operation is issued.
C14_StandardDispatch ==
    [][ (tasks' = tasks /\ ~in_last'.frame.is_extended) =>
          LET message == in_last'.frame
          IN  /\ UNCHANGED << modules_by_uid, modules_by_id >>
              /\ IF message.id >= A3_ID_INDIVIDUAL_MODULE_BASE
                 THEN IF /\ message.data_length >= 1
                         /\ get_data(message, 0) \in {A3_IM_REPLY_PING, A3_IM_ID_ASSIGN_ACK}
                      THEN RoutedAsReply(message)
                      ELSE NoOperation
                 ELSE IF message.id >= A3_ID_ADMIN_WIRES_BASE
                      THEN RoutedAsReply(message)
                      ELSE NoOperation
      ]_vars

\* C14 witness: an IM_REPLY_PING frame of an individual module was routed to
\* the stream of its id and sits in the receiver of the ping waiting on it.
C14_Witness ==
    /\ ~in_last.frame.is_extended
    /\ in_last.frame.id >= A3_ID_INDIVIDUAL_MODULE_BASE
    /\ get_data(in_last.frame, 0) = A3_IM_REPLY_PING
    /\ str_last.op = "Get" /\ str_last.ret_ok /\ str_last.stream_id = in_last.frame.id
    /\ \E t \in TaskIds :
          /\ tasks[t].kind = "ping" /\ tasks[t].pc = "wait"
          /\ tasks[t].stream_id = in_last.frame.id
          /\ mailbox[t] = [st |-> "msg", msg |-> in_last.frame]

\* The step ends the wait of ping_core in task t.
PingWaitEnds(t) ==
    /\ tasks[t].kind = "ping"
    /\ tasks[t].pc = "wait"
    /\ tasks'[t].pc # "wait"

\* C15: a ping on whose stream no reply frame arrived by the deadline
\* answers Timeout to the operator, and after its terminate_stream the
\* stream manager has no entry for 0x700 + id.
C15_PingTimeoutCleanup ==
    [][ \A t \in TaskIds :
          /\ (PingWaitEnds(t) /\ mailbox[t].st # "msg") => tasks'[t].result = "Timeout"
          /\ (Terminates(t) /\ tasks[t].kind = "ping" /\ tasks[t].result = "Timeout") =>
                (tasks[t].id + A3_ID_INDIVIDUAL_MODULE_BASE) \notin DOMAIN streams'
      ]_vars

\* C16: once a command has finished, on whatever exit path, the stream it
\* allocated is no longer in the stream table.
C16_NoStreamOutlivesCommand ==
    \A t \in TaskIds :
       (tasks[t].pc \in {"done", "panicked"} /\ tasks[t].stream_id # NoStream) =>
          tasks[t].stream_id \notin DOMAIN streams

\* The step is the a3_message::assign_module_id of the assignment in task t.
SendsAssign(t) ==
    /\ tasks[t].kind = "id_assign"
    /\ tasks[t].pc = "send"
    /\ tasks'[t].pc # "send"

\* The uid in bytes 1..4 of an MC_ASSIGN_MODULE_ID frame, read big-endian.
UidOf(frame) ==
    ((frame.data[2] * 256 + frame.data[3]) * 256 + frame.data[4]) * 256 + frame.data[5]

\* C17: the assignment a sign-in of uid starts sends MC_ASSIGN_MODULE_ID on
\* 0x700 with the uid in four big-endian bytes and the id GetOrCreateIdByUid
\* returned; once an ID_ASSIGN_ACK has arrived on 0x700 + id it sends no
\* further frame, its stream is terminated and the registry maps uid <-> id.
C17_AckEndsAssignment ==
    [][ \A t \in TaskIds :
          /\ SendsAssign(t) =>
                /\ can_last'.id = A3_ID_MISSION_CONTROL
                /\ can_last'.data_length = 6
                /\ can_last'.data[1] = A3_MC_ASSIGN_MODULE_ID
                /\ \A i \in 2 .. 5 : can_last'.data[i] \in 0 .. 255
                /\ UidOf(can_last') = tasks[t].uid
                /\ can_last'.data[6] = tasks[t].id
                /\ ~acked[t]
          /\ (Terminates(t) /\ tasks[t].kind = "id_assign" /\ acked[t]) =>
                /\ tasks'[t].pc \in {"done", "panicked"}
                /\ tasks[t].stream_id \notin DOMAIN streams'
                /\ tasks[t].uid \in DOMAIN modules_by_uid'
                /\ modules_by_uid'[tasks[t].uid].id = tasks[t].id
      ]_vars

\* The step is the terminate_stream of an attempt of task t that timed out.
TimedOutAttemptEnds(t) ==
    /\ Terminates(t)
    /\ tasks[t].kind = "id_assign"
    /\ tasks[t].got = "timeout"

\* C18: one sign-in sends at most 10 MC_ASSIGN_MODULE_ID frames; an attempt
\* that times out terminates its stream before the next attempt starts, and
\* the next attempt waits twice as long, the first one 50 ms; when all 10
\* attempts time out the task ends with Timeout and the mapping uid <-> id
\* GetOrCreateIdByUid made is still in the registry.
C18_AssignRetry ==
    [][ \A t \in TaskIds :
          /\ tasks'[t].n_assign <= ASSIGN_MAX_ATTEMPTS
          /\ GetsId(t) => tasks'[t].wait_ms = ASSIGN_INITIAL_TIMEOUT_MILLIS
          /\ SendsAssign(t) => SlotOf(streams, tasks[t].stream_id) # Some(t)
          /\ TimedOutAttemptEnds(t) =>
                /\ str_last'.op = "Terminate"
                /\ str_last'.stream_id = tasks[t].stream_id
                /\ tasks[t].stream_id \notin DOMAIN streams'
                /\ UNCHANGED << modules_by_uid, modules_by_id >>
                /\ IF tasks[t].n_assign < ASSIGN_MAX_ATTEMPTS
                   THEN /\ tasks'[t].pc = "send"
                        /\ tasks'[t].wait_ms = 2 * tasks[t].wait_ms
                   ELSE /\ tasks'[t].pc = "done"
                        /\ tasks'[t].result = "Timeout"
                        /\ tasks[t].uid \in DOMAIN modules_by_uid'
                        /\ modules_by_uid'[tasks[t].uid].id = tasks[t].id
      ]_vars

\* The step ends the wait of initiate_stream in task t with a frame read.
InitReplyRead(t) ==
    /\ tasks[t].pc = "init_wait"
    /\ tasks'[t].pc # "init_wait"
    /\ mailbox[t].st = "msg"

\* The frame carries the status byte Ready.
IsReady(message) == message.data_length >= 1 /\ get_data(message, 0) = 0

\* The frame carries the status byte Busy.
IsBusy(message) == message.data_length >= 1 /\ get_data(message, 0) = 1

IsContinueFrame(frame) ==
    frame.data_length >= 1 /\ frame.data[1] = A3_MC_CONTINUE_STREAM

\* C19: get-name and get-config send no MC_CONTINUE_STREAM before a reply
\* with status Ready was received on the wire; a reply with status
\* NotSupported, NoSuchStream or an unknown value, or with no status byte,
\* ends the command with an error, and no MC_CONTINUE_STREAM is sent for it.
C19_ContinueOnlyAfterReady ==
    [][ /\ (can_last' # can_last /\ IsContinueFrame(can_last')) =>
              \E t \in TaskIds : tasks'[t].n_continue > tasks[t].n_continue
        /\ \A t \in TaskIds :
              /\ tasks'[t].n_continue > tasks[t].n_continue =>
                    /\ tasks[t].got_ready
                    /\ can_last' = request_command(A3_MC_CONTINUE_STREAM, tasks[t].id,
                                                   WireNum(tasks[t].stream_id))
              /\ (tasks'[t].got_ready /\ ~tasks[t].got_ready) =>
                    /\ InitReplyRead(t)
                    /\ IsReady(mailbox[t].msg)
              /\ (/\ InitReplyRead(t)
                  /\ ~IsReady(mailbox[t].msg)
                  /\ ~IsBusy(mailbox[t].msg)) =>
                    /\ tasks'[t].pc = "terminate"
                    /\ tasks'[t].result \in
                          {"A3ProtocolError", "A3InvalidValue", "A3CommunicationError"}
                    /\ ~tasks'[t].got_ready
                    /\ tasks'[t].n_continue = 0
      ]_vars

\* C19 witness: a command whose request was answered Ready has sent its first
\* MC_CONTINUE_STREAM and waits for the chunk.
C19_Witness ==
    \E t \in TaskIds :
       /\ tasks[t].kind \in {"get_name", "get_config"}
       /\ tasks[t].pc = "pull_wait"
       /\ tasks[t].got_ready
       /\ tasks[t].n_continue = 1
       /\ IsContinueFrame(can_last)

\* The step ends the wait of initiate_stream in task t with a Busy status.
BusyRead(t) == InitReplyRead(t) /\ IsBusy(mailbox[t].msg)

\* The step is the continue_stream of initiate_stream in task t.
InitContinues(t) == tasks[t].pc = "init_continue" /\ tasks'[t].pc # "init_continue"

\* The backoff slept after the k-th Busy answer, as the spec lists it.
BackoffMillis(k) == CASE k = 1 -> 100 [] k = 2 -> 200 [] OTHER -> 400

PullReplyRead(t) == tasks[t].pc = "pull_wait" /\ tasks'[t].pc # "pull_wait"

\* The step makes task t answer its command with Ok.
AnswersOk(t) == tasks[t].result = "-" /\ tasks'[t].result = "Ok"

\* The step hands a SetProperties to the registry.
IssuesSetProperties == reg_last' # reg_last /\ reg_last'.op = "SetProperties"

NameObserved(message) == message.chunk \in {"name", "name_type"}

TypeObserved(message) == message.chunk \in {"type", "name_type", "unknown_type"}

\* C21: a get-config that succeeds issues SetProperties for its id with a
\* Name exactly when the decoded chunk held one and a ModuleTypeId exactly
\* when it held a ModuleType (a ModuleType name only beside the id); fields
\* that were not observed are None and the cached values stay.  A get-name
\* and a get-config that ends otherwise issue no SetProperties.
C21_GetConfigCommits ==
    [][ /\ \A t \in TaskIds :
             LET message == mailbox[t].msg
                 args == reg_last'.args
                 id == tasks[t].id
             IN  /\ (tasks[t].kind = "get_config" /\ AnswersOk(t)) =>
                       /\ IssuesSetProperties
                       /\ reg_last'.id = id
                       /\ (args[1] # None) <=> NameObserved(message)
                       /\ (args[3] # None) <=> TypeObserved(message)
                       /\ (args[2] # None) => (args[3] # None)
                       /\ id \in DOMAIN modules_by_id =>
                             /\ id \in DOMAIN modules_by_id'
                             /\ modules_by_id'[id].name =
                                   IF NameObserved(message) THEN args[1]
                                   ELSE modules_by_id[id].name
                             /\ modules_by_id'[id].module_type_id =
                                   IF TypeObserved(message) THEN args[3]
                                   ELSE modules_by_id[id].module_type_id
                 /\ (tasks'[t] # tasks[t] /\ ~(tasks[t].kind = "get_config" /\ AnswersOk(t))) =>
                       ~IssuesSetProperties
        /\ IssuesSetProperties =>
              \E t \in TaskIds : tasks[t].kind = "get_config" /\ AnswersOk(t) ]_vars

\* A get-config answered Ok after a chunk with a Name and a ModuleType, and
\* the registry entry of the module shows both.
C21_Witness ==
    \E t \in TaskIds :
       /\ tasks[t].kind = "get_config"
       /\ tasks[t].result = "Ok"
       /\ reg_last.op = "SetProperties"
       /\ reg_last.args = << Some("n1"), Some("t1"), Some("ty1") >>
       /\ tasks[t].id \in DOMAIN modules_by_id
       /\ modules_by_id[tasks[t].id].name = Some("n1")
       /\ modules_by_id[tasks[t].id].module_type_id = Some("ty1")


(***************************************************************************)
(* Set-config and the property codec: claims                               *)
(***************************************************************************)
\* The step sends a data frame of the set-config of task t.
SendsData(t) == tasks'[t].pushed # tasks[t].pushed

RECURSIVE Concat(_)
Concat(frames) == IF frames = << >> THEN << >> ELSE Head(frames) \o Concat(Tail(frames))

\* C22: in a set-config, a data frame is sent only after a frame came on the
\* wire for it; it is addressed to the wire and carries at most 8 bytes;
\* when data remains after it the stream was re-armed with Continue before
\* it; and when the command ends with Ok the payloads sent, put together,
\* are the chunk serialization of the property list.
C22_PushProtocol ==
    [][ \A t \in TaskIds :
          tasks[t].kind = "set_config" =>
             LET wire == tasks[t].stream_id
                 sent == Concat(tasks'[t].pushed)
             IN  /\ (tasks'[t].pc = "push_continue" /\ tasks[t].pc # "push_continue") =>
                       tasks[t].pc = "push_wait" /\ mailbox[t].st = "msg"
                 /\ SendsData(t) =>
                       /\ \/ tasks[t].pc = "push_wait" /\ mailbox[t].st = "msg"
                          \/ tasks[t].pc = "push_continue"
                       /\ can_last'.id = wire
                       /\ wire \in WireIds
                       /\ can_last'.data_length = Len(can_last'.data)
                       /\ can_last'.data_length <= 8
                       /\ tasks'[t].pushed = Append(tasks[t].pushed, can_last'.data)
                       /\ sent # chunk_bytes(tasks[t].props) =>
                             /\ str_last'.op = "Continue"
                             /\ str_last'.ret_ok
                             /\ str_last'.stream_id = wire
                             /\ SlotOf(streams', wire) = Some(t)
                 /\ AnswersOk(t) => Concat(tasks[t].pushed) = chunk_bytes(tasks[t].props) ]_vars


\* The positions of the Name properties of a list.
NamePositions(props) == {i \in 1 .. Len(props) : props[i].id = A3_PROP_NAME}

\* The value of the Name property written first.
WrittenName(props) == props[SetMin(NamePositions(props))].data

\* The step ends the command of task t without Ok: an error or a panic.
EndsInError(t) ==
    \/ tasks[t].result = "-" /\ tasks'[t].result \notin {"-", "Ok"}
    \/ tasks[t].pc # "panicked" /\ tasks'[t].pc = "panicked"

\* C23: a set-config(id) that ends with Ok and has a Name in its list issues
\* SetProperties(id) with that name and nothing else, which sets the name of
\* a registered module id; a set-config that ends with Ok without a Name, or
\* with Timeout or another error, leaves the registry as it was, and no
\* other step of a set-config touches the registry.
C23_MirrorOnSuccess ==
    [][ \A t \in TaskIds :
          (tasks[t].kind = "set_config" /\ tasks'[t] # tasks[t]) =>
             LET props == tasks[t].props
                 id == tasks[t].id
             IN  IF AnswersOk(t) /\ NamePositions(props) # {}
                 THEN /\ IssuesSetProperties
                      /\ reg_last'.id = id
                      /\ reg_last'.args = << Some(WrittenName(props)), None, None >>
                      /\ id \in DOMAIN modules_by_id =>
                            /\ modules_by_id'[id].name = Some(WrittenName(props))
                            /\ modules_by_id'[id].module_type = modules_by_id[id].module_type
                      /\ DOMAIN modules_by_id' = DOMAIN modules_by_id
                 ELSE /\ ~IssuesSetProperties
                      /\ modules_by_id' = modules_by_id
                      /\ modules_by_uid' = modules_by_uid ]_vars

\* A set-config with a Name sent in two data frames ended with Ok, and the
\* registry shows the name for the module.
C23_Witness ==
    \E t \in TaskIds :
       /\ tasks[t].kind = "set_config"
       /\ tasks[t].result = "Ok"
       /\ Len(tasks[t].pushed) = 2
       /\ tasks[t].id \in DOMAIN modules_by_id
       /\ modules_by_id[tasks[t].id].name = Some(WrittenName(tasks[t].props))


\* C24: the frames a PropertyEncoder produces for a list, given to a
\* ChunkParser one by one, are all accepted, the parser reports done on the
\* frame that ends the list, and commit then returns the list.
C24_RoundTrip ==
    [][ /\ codec_last'.op = "transfer" =>
              /\ codec_last'.ok
              /\ is_done(encoder'.st, encoder'.props) => codec_last'.done
        /\ ( /\ codec_last'.op = "commit"
             /\ is_done(encoder.st, encoder.props)
             /\ chunk_parser.st.chunk # None ) =>
              /\ codec_last'.ok
              /\ codec_last'.props = encoder.props ]_vars


\* s is the beginning of u.
IsPrefix(s, u) == Len(s) <= Len(u) /\ SubSeq(u, 1, Len(s)) = s

\* C25: whatever the sizes of the buffers, the bytes successive flush calls
\* write are, put together, the beginning of the canonical serialization of
\* the list (num_fields, then id, length and bytes of each property), and
\* all of it once the encoder is done.
C25_ChunkingIndependence ==
    encoder.live =>
       /\ IsPrefix(codec_last.stream, chunk_bytes(encoder.props))
       /\ is_done(encoder.st, encoder.props) =>
             codec_last.stream = chunk_bytes(encoder.props)

\* C26: is_done is true exactly from the flush on that wrote the last byte
\* of the serialization of the list; a flush of a done encoder writes
\* nothing and a flush of an encoder that is not done writes a byte.
C26_EncoderCompletion ==
    [][ /\ encoder'.live =>
              ( is_done(encoder'.st, encoder'.props)
                   <=> codec_last'.stream = chunk_bytes(encoder'.props) )
        /\ (encoder.live /\ codec_last'.op = "flush") =>
              IF is_done(encoder.st, encoder.props)
              THEN codec_last'.bytes = << >> /\ encoder'.st = encoder.st
              ELSE codec_last'.bytes # << >> ]_vars


\* The fields of the chunk the parser is being fed.
FieldsOf(input) ==
    CHOOSE props \in CodecLists :
       \/ input = chunk_bytes(props)
       \/ Len(props) = 1 /\ input = chunk_fields(props)

\* C27: fed the bytes of a chunk in frames cut anywhere, ChunkParser::data
\* answers Ok(false) until the frame that brings the last byte of the last
\* field and Ok(true) on that frame; after that a data call is an error and
\* the first commit returns the fields in wire order; a commit before, and
\* a second commit, is an error.  A parser made by for_single_field takes
\* the bytes of one field in the same way.
C27_DecoderCompletion ==
    [][ LET total == Len(codec_last.input)
            fed_before == Len(codec_last.fed)
            fed_after == Len(codec_last'.fed)
            committed == chunk_parser.st.chunk = None
        IN  /\ (codec_last'.op = "data" /\ ~committed) =>
                  IF fed_before >= total
                  THEN ~codec_last'.ok
                  ELSE codec_last'.ok /\ (codec_last'.done <=> fed_after >= total)
            /\ codec_last'.op = "commit" =>
                  IF ~committed /\ fed_before >= total
                  THEN /\ codec_last'.ok
                       /\ codec_last'.props = FieldsOf(codec_last.input)
                  ELSE ~codec_last'.ok ]_vars


\* C28: a property whose bytes are fewer than its type needs is a decode
\* error, not an abort of the task: a get-config whose reply holds a
\* ModuleType property of fewer than two bytes ends with an error and goes
\* on to terminate its wire.
C28_ValueErrorNoPanic ==
    [][ \A t \in TaskIds :
          ( /\ PullReplyRead(t)
            /\ tasks[t].kind = "get_config"
            /\ mailbox[t].st = "msg"
            /\ ModuleTypeData(mailbox[t].msg.chunk) # None
            /\ Len(ModuleTypeData(mailbox[t].msg.chunk)[1]) < 2 ) =>
             /\ tasks'[t].pc = "terminate"
             /\ tasks'[t].result \notin {"-", "Ok"} ]_vars


\* The pull loop of task t has taken the MaxChunks frames the model lets a
\* module send.
AtChunkBound(t) == tasks[t].pc = "pull_continue" /\ tasks[t].n_continue = MaxChunks

\* C29: every command handed to the orchestrator is in the end answered
\* with a result, a value or an error, and with one only: a result once
\* sent stays.
C29_EveryCommandAnswers ==
    /\ \A t \in TaskIds :
          (tasks[t].kind \in {"get_name", "get_config"})
             ~> (tasks[t].result # "-" \/ AtChunkBound(t))
    /\ [][ \A t \in TaskIds : tasks[t].result # "-" => tasks'[t].result = tasks[t].result ]_vars


\* C30: in every attempt of an ID assignment the reply stream at
\* A3_ID_INDIVIDUAL_MODULE_BASE + id is installed for the task, with its
\* receiver waiting, when the MC_ASSIGN_MODULE_ID frame is handed to the
\* outbound channel.
C30_StartBeforeAssign ==
    [][ \A t \in TaskIds :
          SendsAssign(t) =>
             /\ can_last' = assign_module_id(tasks[t].uid, tasks[t].id)
             /\ tasks[t].stream_id = A3_ID_INDIVIDUAL_MODULE_BASE + tasks[t].id
             /\ tasks[t].stream_id \in DOMAIN streams
             /\ SlotOf(streams, tasks[t].stream_id) = Some(t)
             /\ mailbox[t].st = "open" ]_vars


(***************************************************************************)
(* Concurrent commands, sign-ins and the registry: claims.                 *)
(***************************************************************************)
\* The ping t leaves its wait with success.
PingSucceeds(t) ==
    /\ tasks[t].kind = "ping"
    /\ tasks[t].pc = "wait"
    /\ tasks'[t].result = "Ok"

\* C31: ping reports success only on a reply: a ping ends its wait with
\* success only if a frame was delivered into the slot this ping installed
\* on stream 0x700+id; when the slot was discarded without a frame or no
\* frame arrived, the result is an error or Timeout.
C31_PingSuccessNeedsReply ==
    [][\A t \in TaskIds :
          PingSucceeds(t) =>
             /\ mailbox[t].st = "msg"
             /\ mailbox[t].msg.id = tasks[t].stream_id]_vars


\* The task t, whose stream allocation failed with A3StreamConflict, takes a step.
ConflictedStep(t) ==
    /\ tasks'[t] # tasks[t]
    /\ \/ tasks[t].result = "A3StreamConflict"
       \/ tasks'[t].result = "A3StreamConflict"

\* C32: a stream conflict is side-effect free: no step of a command whose
\* stream allocation failed with A3StreamConflict removes or re-arms the
\* stream held by the command already in flight, whose receiver stays as
\* it was.
C32_ConflictSideEffectFree ==
    [][\A t \in TaskIds :
          ConflictedStep(t) => /\ streams' = streams
                               /\ mailbox' = mailbox]_vars


\* The spawned handler task h sends its registry operation, which the
\* registry actor applies.
AppliesRegistryOp(h) ==
    /\ h \in spawned
    /\ h \notin spawned'
    /\ h.route \in {"notify_id", "uid_cancel"}

\* An admin frame about the same uid arrived before the frame of h and its
\* registry operation has not been applied yet.
EarlierPending(h) ==
    \E g \in spawned :
       /\ g.seq < h.seq
       /\ g.message.id = h.message.id
       /\ g.route \in {"notify_id", "uid_cancel"}

\* C33: registry events are applied in frame arrival order: when the
\* registry operation caused by an extended admin frame is applied, the
\* operation caused by every admin frame about the same uid that arrived
\* earlier has been applied already.
C33_ArrivalOrder ==
    [][\A h \in spawned : AppliesRegistryOp(h) => ~EarlierPending(h)]_vars


\* The assignment t takes the frame in its receiver as the confirmation of
\* the attempt in progress.
TakesAck(t) ==
    /\ tasks[t].kind = "id_assign"
    /\ tasks[t].pc = "wait"
    /\ tasks'[t].pc # "wait"
    /\ mailbox[t].st = "msg"

\* C34: reply attribution across the retries of an ID assignment: the ACK
\* an attempt consumes is the ACK the module sent in answer to that same
\* attempt, never the late ACK of an earlier attempt.
C34_AckOfSameAttempt ==
    [][\A t \in TaskIds :
          TakesAck(t) => mail_re[t] = Request(t, tasks[t].n_assign)]_vars


\* The cached metadata of a registry entry.
Metadata(m) == << m.name, m.module_type, m.module_type_id >>

\* The registry holds uid under id in both of its maps.
RegisteredPair(uid, id) ==
    /\ uid \in DOMAIN modules_by_uid
    /\ modules_by_uid[uid].id = id
    /\ id \in DOMAIN modules_by_id
    /\ modules_by_id[id].uid = uid

\* The registry actor processes a sign-in or a NOTIFY_ID for the pair.
SignsInAgain(uid, id) ==
    \/ reg_last'.op = "GetOrCreateIdByUid" /\ reg_last'.uid = uid
    \/ reg_last'.op = "Register" /\ reg_last'.uid = uid /\ reg_last'.id = id

\* The entry of uid is there after the step with the metadata it had.
KeepsMetadata(uid) ==
    /\ uid \in DOMAIN modules_by_uid'
    /\ Metadata(modules_by_uid'[uid]) = Metadata(modules_by_uid[uid])
    /\ modules_by_uid'[uid].id \in DOMAIN modules_by_id'
    /\ Metadata(modules_by_id'[modules_by_uid'[uid].id]) = Metadata(modules_by_uid[uid])

\* C35: metadata lifecycle: cached name, module_type and module_type_id of
\* a module change only by a SetProperties and disappear only when the
\* module is deregistered; a sign-in (GetOrCreateIdByUid) or a NOTIFY_ID
\* (Register) for a uid/id pair that is already registered leaves the
\* cached metadata as it was.
C35_MetadataLifecycle ==
    [][reg_steps' # reg_steps =>
         \A uid \in Uids :
            (uid \in DOMAIN modules_by_uid /\ Metadata(modules_by_uid[uid]) # NoArgs) =>
               /\ (/\ reg_last'.op # "SetProperties"
                   /\ ~(reg_last'.op = "Deregister" /\ reg_last'.uid = uid))
                  => KeepsMetadata(uid)
               /\ \A id \in Ids :
                     (RegisteredPair(uid, id) /\ SignsInAgain(uid, id))
                        => KeepsMetadata(uid)]_vars


\* The command t holds a wire: create_wire gave it one and its Terminate
\* has not been processed.
HoldsWire(t) ==
    /\ tasks[t].kind \in {"get_name", "get_config", "set_config"}
    /\ tasks[t].stream_id \in WireIds
    /\ tasks[t].pc # "done"

\* create_wire hands a wire to the command t.
GetsWire(t) == tasks[t].stream_id = NoStream /\ tasks'[t].stream_id \in WireIds

\* C36: wire exclusivity: no two commands in flight hold the same wire id,
\* and a wire id is handed to a command only when no other command holds
\* it, that is after the command that held it has issued its Terminate.
C36_WireExclusive ==
    /\ [](\A t, u \in TaskIds :
             (t # u /\ HoldsWire(t) /\ HoldsWire(u)) => tasks[t].stream_id # tasks[u].stream_id)
    /\ [][\A t, u \in TaskIds :
             (t # u /\ GetsWire(t) /\ HoldsWire(u))
                => tasks'[t].stream_id # tasks[u].stream_id]_vars

\* A command was handed the wire another command held and gave back, while
\* a third wire id was never needed.
C36_Witness ==
    \E t, u \in TaskIds :
       /\ t # u
       /\ tasks[t].pc = "done"
       /\ tasks[t].stream_id \in WireIds
       /\ HoldsWire(u)
       /\ tasks[u].stream_id = tasks[t].stream_id


\* The command t reads the frame that is in its receiver.
ConsumesFrame(t) ==
    /\ tasks[t].kind \in {"get_name", "get_config", "set_config"}
    /\ tasks[t].pc \in {"init_wait", "pull_wait", "push_wait"}
    /\ tasks'[t].pc # tasks[t].pc
    /\ mailbox[t].st = "msg"

\* C37: reply isolation on reused wires: every frame a get-name, get-config
\* or set-config command consumes was sent by the module in answer to a
\* request of that same command; the late answer to a command that has
\* finished is never consumed by a later command given the same wire id.
C37_ReplyIsolation ==
    [][\A t \in TaskIds : ConsumesFrame(t) => mail_re[t].task = t]_vars


\* The sign-in task t has been given its id by the registry.
HasId(t) == tasks[t].kind = "id_assign" /\ tasks[t].pc # "get_id"

\* C38: concurrent sign-ins get distinct ids: in any interleaving of
\* sign-in tasks, while free ids remain, tasks of distinct uids are given
\* distinct ids, none of them 0, and two overlapping sign-ins of the same
\* uid are given the same id.
C38_DistinctIds ==
    \A t, u \in TaskIds :
       (t # u /\ HasId(t) /\ HasId(u)) =>
          /\ tasks[t].id \in 1 .. MaxModuleId
          /\ tasks[t].uid # tasks[u].uid => tasks[t].id # tasks[u].id
          /\ tasks[t].uid = tasks[u].uid => tasks[t].id = tasks[u].id

\* Two modules signed in while the other's assignment was in progress and
\* both assignments have sent their MC_ASSIGN_MODULE_ID.
C38_Witness ==
    /\ HasId("t1") /\ HasId("t2")
    /\ tasks["t1"].uid # tasks["t2"].uid
    /\ tasks["t1"].n_assign >= 1
    /\ tasks["t2"].n_assign >= 1
    /\ tasks["t1"].pc # "done"
    /\ tasks["t2"].pc # "done"


\* The registry actor processes Deregister(uid).
Deregisters(uid) ==
    /\ reg_last'.op = "Deregister"
    /\ reg_last'.uid = uid
    /\ << modules_by_id, modules_by_uid >> # << modules_by_id', modules_by_uid' >>

\* C39: Deregister frame condition: Deregister(uid) removes only the
\* module registered under uid; every module of another uid is still
\* there after it with the same content, under its uid and under its id
\* (the map GetById and List read).
C39_DeregisterFrame ==
    [][\A uid \in Uids :
          Deregisters(uid) =>
             /\ \A v \in DOMAIN modules_by_uid :
                   v # uid => /\ v \in DOMAIN modules_by_uid'
                              /\ modules_by_uid'[v] = modules_by_uid[v]
             /\ \A id \in DOMAIN modules_by_id :
                   modules_by_id[id].uid # uid =>
                      /\ id \in DOMAIN modules_by_id'
                      /\ modules_by_id'[id] = modules_by_id[id]]_vars


\* The frame sent last is an MC_ASSIGN_MODULE_ID that carries id 0.
AssignsIdZero ==
    /\ can_last.data_length = 6
    /\ can_last.data[1] = A3_MC_ASSIGN_MODULE_ID
    /\ can_last.data[6] = 0

\* C40: an exhausted id space is not assigned: when GetOrCreateIdByUid
\* returns the sentinel 0 because all ids are in use, no MC_ASSIGN_MODULE_ID
\* frame carrying id 0 is sent, no stream is opened on 0x700 + 0, and no
\* module with id 0 is visible through List or GetById.
C40_SentinelNotAssigned ==
    /\ ~AssignsIdZero
    /\ A3_ID_INDIVIDUAL_MODULE_BASE \notin DOMAIN streams
    /\ 0 \notin DOMAIN modules_by_id
    /\ \A m \in list(modules_by_id) : m.id # 0

=============================================================================
